---- MODULE Spec2Model ----
(***************************************************************************)
(* Model of the Copilot query/analysis engine of KPI_traceUI:              *)
(*   CopilotEngine      (lib/copilotEngine.ts,  src/unnamed/part_006)      *)
(*   parseQuery         (lib/nlpParser.ts,      src/unnamed/part_004)      *)
(*   ResponseGenerator  (lib/responseGenerator.ts, src/unnamed/part_004)   *)
(*   CopilotPanel       (src/src/components/CopilotPanel.tsx)              *)
(***************************************************************************)
EXTENDS Integers, Sequences, FiniteSets, TLC

VARIABLES
    nodes,        \* CopilotEngine.nodes: the engine's node array
    edges,        \* CopilotEngine.edges: the engine's edge array
    call,         \* the last call made on the engine or the parser and what it returned
    run,          \* a traversal in progress, one forEach iteration at a time
    propNodes,    \* CopilotPanel: the nodes prop of the latest render
    propEdges,    \* CopilotPanel: the edges prop of the latest render
    effectPending,\* CopilotPanel: the [nodes, edges] effect of the latest render has not run yet
    messages,     \* CopilotPanel: the messages state
    isProcessing, \* CopilotPanel: the isProcessing state
    timers,       \* CopilotPanel: the setTimeout callbacks not yet fired
    highlights,   \* CopilotPanel: the onHighlight invocations made so far
    context,      \* CopilotPanel: the context of contextRef.current, a ContextManager
    app           \* App: the page, the scheme handed over, and the state of TradeoffAnalysis

engineVars == <<nodes, edges>>
runVars == <<run>>
panelVars == <<propNodes, propEdges, effectPending, messages, isProcessing, timers, highlights,
               context>>
renderVars == <<propNodes, propEdges, effectPending, messages, isProcessing, timers, highlights>>
appVars == <<app>>
vars == <<nodes, edges, call, run, propNodes, propEdges, effectPending, messages,
          isProcessing, timers, highlights, context, app>>

-----------------------------------------------------------------------------
(* Bounds of the model *)

MaxNodes == 3
MaxEdges == 2
MaxStart == 2

NodeIds == {"X", "Y", "Z"}

-----------------------------------------------------------------------------
(* Data *)

\* JavaScript values, tagged by type, so that === is equality of the tagged values
Undefined == [t |-> "undefined"]
Null == [t |-> "null"]
Bool(b) == [t |-> "boolean", v |-> b]
Num(n) == [t |-> "number", v |-> n]
Str(x) == [t |-> "string", v |-> x]
Arr(a) == [t |-> "array", v |-> a]

\* KPIMetrics: achieved and the optional modelType
MkMetrics(achieved, modelType) ==
    [t |-> "object", achieved |-> Bool(achieved), modelType |-> modelType]

\* a node of the graph as the engine reads it: n.id, n.data.category,
\* n.data.level, n.data.metrics
MkNode(id, category, level, metrics) ==
    [id |-> id, category |-> category, level |-> level, metrics |-> metrics]

\* an edge as the engine reads it: edge.id, edge.source, edge.target
MkEdge(id, source, target) ==
    [id |-> id, source |-> source, target |-> target]

NoCall == [op |-> "none"]

\* some(n => n.id === nodeId)
HasNode(ns, nodeId) == \E i \in 1..Len(ns) : ns[i].id = nodeId

\* Set.add on an insertion-ordered Set
SetAdd(s, x) == IF \E i \in 1..Len(s) : s[i] = x THEN s ELSE Append(s, x)

Range(s) == {s[i] : i \in 1..Len(s)}

-----------------------------------------------------------------------------
(* CopilotEngine.traceChain *)

\* the three Sets of one traceChain / traceImpact / traceDependencies call
EmptyTrace == [visited |-> {}, relatedNodes |-> <<>>, relatedEdges |-> <<>>]

RECURSIVE traverse(_, _, _), traverseIncoming(_, _, _, _), traverseOutgoing(_, _, _, _)

\* this.edges.forEach(edge => { if (edge.target === nodeId && !visited.has(edge.source)) ... })
traverseIncoming(es, st, nodeId, i) ==
    IF i > Len(es) THEN st
    ELSE IF es[i].target = nodeId /\ es[i].source \notin st.visited
         THEN traverseIncoming(es,
                  traverse(es,
                           [st EXCEPT !.relatedEdges = SetAdd(@, es[i].id),
                                      !.relatedNodes = SetAdd(@, es[i].source)],
                           es[i].source),
                  nodeId, i + 1)
         ELSE traverseIncoming(es, st, nodeId, i + 1)

\* this.edges.forEach(edge => { if (edge.source === nodeId && !visited.has(edge.target)) ... })
traverseOutgoing(es, st, nodeId, i) ==
    IF i > Len(es) THEN st
    ELSE IF es[i].source = nodeId /\ es[i].target \notin st.visited
         THEN traverseOutgoing(es,
                  traverse(es,
                           [st EXCEPT !.relatedEdges = SetAdd(@, es[i].id),
                                      !.relatedNodes = SetAdd(@, es[i].target)],
                           es[i].target),
                  nodeId, i + 1)
         ELSE traverseOutgoing(es, st, nodeId, i + 1)

RECURSIVE addNeighbours(_, _, _, _)
\* the neighbours of nodeId and the edges to them, added without a call of traverse
addNeighbours(es, st, nodeId, i) ==
    IF i > Len(es) THEN st
    ELSE IF es[i].target = nodeId /\ es[i].source \notin st.visited
         THEN addNeighbours(es, [st EXCEPT !.relatedEdges = SetAdd(@, es[i].id),
                                           !.relatedNodes = SetAdd(@, es[i].source)],
                            nodeId, i + 1)
         ELSE IF es[i].source = nodeId /\ es[i].target \notin st.visited
              THEN addNeighbours(es, [st EXCEPT !.relatedEdges = SetAdd(@, es[i].id),
                                                !.relatedNodes = SetAdd(@, es[i].target)],
                                 nodeId, i + 1)
              ELSE addNeighbours(es, st, nodeId, i + 1)

\* a traverse that adds the direct neighbours but does not recurse into them
traverseOneHop(es, st, nodeId) ==
    IF nodeId \in st.visited THEN st
    ELSE addNeighbours(es,
             [st EXCEPT !.visited = @ \cup {nodeId},
                        !.relatedNodes = SetAdd(@, nodeId)],
             nodeId, 1)

\* a traverse that looks up the incoming edges only
traverseIncomingOnly(es, st, nodeId) ==
    IF nodeId \in st.visited THEN st
    ELSE traverseIncoming(es,
             [st EXCEPT !.visited = @ \cup {nodeId},
                        !.relatedNodes = SetAdd(@, nodeId)],
             nodeId, 1)

\* const traverse = (nodeId) => { if (visited.has(nodeId)) return; ... }
traverse(es, st, nodeId) ==
    IF nodeId \in st.visited THEN st
    ELSE LET st1 == [st EXCEPT !.visited = @ \cup {nodeId},
                               !.relatedNodes = SetAdd(@, nodeId)]
         IN traverseOutgoing(es, traverseIncoming(es, st1, nodeId, 1), nodeId, 1)

RECURSIVE traceChainFrom(_, _, _, _, _)
\* startNodeIds.forEach(nodeId => { if (this.nodes.some(n => n.id === nodeId)) traverse(nodeId) })
traceChainFrom(ns, es, st, startNodeIds, i) ==
    IF i > Len(startNodeIds) THEN st
    ELSE IF HasNode(ns, startNodeIds[i])
         THEN traceChainFrom(ns, es, traverse(es, st, startNodeIds[i]), startNodeIds, i + 1)
         ELSE traceChainFrom(ns, es, st, startNodeIds, i + 1)

\* traceChain(startNodeIds): ChainResult, on the arrays ns, es
traceChain(ns, es, startNodeIds) ==
    LET st == traceChainFrom(ns, es, EmptyTrace, startNodeIds, 1)
    IN [nodes |-> st.relatedNodes, edges |-> st.relatedEdges]

-----------------------------------------------------------------------------
(* CopilotEngine.traceImpact, CopilotEngine.traceDependencies *)

RECURSIVE traverseUp(_, _, _), traverseUpEdges(_, _, _, _)

\* the upward scan with source and target exchanged
traverseUpEdgesSwapped(es, st, currentNodeId, i) ==
    IF i > Len(es) THEN st
    ELSE IF es[i].source = currentNodeId
         THEN traverseUpEdges(es,
                  traverseUp(es,
                             [st EXCEPT !.relatedEdges = SetAdd(@, es[i].id),
                                        !.relatedNodes = SetAdd(@, es[i].target)],
                             es[i].target),
                  currentNodeId, i + 1)
         ELSE traverseUpEdges(es, st, currentNodeId, i + 1)

\* this.edges.forEach(edge => { if (edge.target === currentNodeId) ... })
traverseUpEdges(es, st, currentNodeId, i) ==
    IF i > Len(es) THEN st
    ELSE IF es[i].target = currentNodeId
         THEN traverseUpEdges(es,
                  traverseUp(es,
                             [st EXCEPT !.relatedEdges = SetAdd(@, es[i].id),
                                        !.relatedNodes = SetAdd(@, es[i].source)],
                             es[i].source),
                  currentNodeId, i + 1)
         ELSE traverseUpEdges(es, st, currentNodeId, i + 1)

traverseUp(es, st, currentNodeId) ==
    IF currentNodeId \in st.visited THEN st
    ELSE traverseUpEdges(es,
             [st EXCEPT !.visited = @ \cup {currentNodeId},
                        !.relatedNodes = SetAdd(@, currentNodeId)],
             currentNodeId, 1)

\* traceImpact(nodeId): ChainResult
traceImpact(es, nodeId) ==
    LET st == traverseUp(es, EmptyTrace, nodeId)
    IN [nodes |-> st.relatedNodes, edges |-> st.relatedEdges]

RECURSIVE traverseDown(_, _, _), traverseDownEdges(_, _, _, _)

\* this.edges.forEach(edge => { if (edge.source === currentNodeId) ... })
traverseDownEdges(es, st, currentNodeId, i) ==
    IF i > Len(es) THEN st
    ELSE IF es[i].source = currentNodeId
         THEN traverseDownEdges(es,
                  traverseDown(es,
                               [st EXCEPT !.relatedEdges = SetAdd(@, es[i].id),
                                          !.relatedNodes = SetAdd(@, es[i].target)],
                               es[i].target),
                  currentNodeId, i + 1)
         ELSE traverseDownEdges(es, st, currentNodeId, i + 1)

traverseDown(es, st, currentNodeId) ==
    IF currentNodeId \in st.visited THEN st
    ELSE traverseDownEdges(es,
             [st EXCEPT !.visited = @ \cup {currentNodeId},
                        !.relatedNodes = SetAdd(@, currentNodeId)],
             currentNodeId, 1)

\* traceDependencies(nodeId): ChainResult
traceDependencies(es, nodeId) ==
    LET st == traverseDown(es, EmptyTrace, nodeId)
    IN [nodes |-> st.relatedNodes, edges |-> st.relatedEdges]

-----------------------------------------------------------------------------
(* The engine as its callers drive it *)

Idle ==
    [pc |-> "idle", mode |-> "none", starts |-> <<>>, si |-> 1, stack |-> <<>>,
     visited |-> {}, relatedNodes |-> <<>>, relatedEdges |-> <<>>]

\* ContextManager.initializeContext(); a Map is the sequence of its entries in
\* insertion order
initializeContext ==
    [focusedNodes |-> <<>>,
     focusedCategory |-> [t |-> "undefined"],
     queryHistory |-> <<>>,
     preferences |-> [favoriteKPIs |-> [t |-> "array", v |-> <<>>],
                      recentlyViewed |-> [t |-> "array", v |-> <<>>],
                      frequentQueries |-> <<>>],
     sessionState |-> [lastIntent |-> [t |-> "undefined"],
                       lastEntities |-> [t |-> "undefined"]]]

\* the state of TradeoffAnalysis when it is mounted: useState('define'),
\* useState('scheme-b'), useState(false), useState(null)
TradeoffMounted ==
    [currentStep |-> "define", selectedScheme |-> "scheme-b", isWBSDrawerOpen |-> FALSE,
     selectedKPISystem |-> [t |-> "null"]]

\* App when it is mounted: useState('tradeoff'), useState(null), and the
\* TradeoffAnalysis it renders
AppMounted ==
    [currentPage |-> "tradeoff", selectedScheme |-> [t |-> "null"],
     tradeoff |-> TradeoffMounted]

\* the panel before it is mounted
PanelUnused ==
    /\ propNodes = <<>>
    /\ propEdges = <<>>
    /\ effectPending = FALSE
    /\ messages = <<>>
    /\ isProcessing = FALSE
    /\ timers = <<>>
    /\ highlights = <<>>
    /\ context = initializeContext
    /\ app = AppMounted

\* new CopilotEngine(nodes, edges) on the empty arrays
Init ==
    /\ nodes = <<>>
    /\ edges = <<>>
    /\ call = NoCall
    /\ run = Idle
    /\ PanelUnused

\* updateData(nodes, edges)
updateData(ns, es) ==
    /\ nodes' = ns
    /\ edges' = es

\* the host hands over arrays with one more node
HostAddsNode ==
    /\ call = NoCall
    /\ Len(nodes) < MaxNodes
    /\ \E id \in NodeIds :
          /\ ~HasNode(nodes, id)
          /\ updateData(Append(nodes, MkNode(id, "kpi", Num(1), Undefined)), edges)
    /\ UNCHANGED <<call, runVars, panelVars, appVars>>

\* the host hands over arrays with one more edge; endpoints are not validated
HostAddsEdge ==
    /\ call = NoCall
    /\ Len(edges) < MaxEdges
    /\ \E s \in NodeIds, t \in NodeIds :
          updateData(nodes, Append(edges, MkEdge(Len(edges) + 1, s, t)))
    /\ UNCHANGED <<call, runVars, panelVars, appVars>>

StartLists == UNION {[1..n -> NodeIds] : n \in 0..MaxStart}

CallTraceChain ==
    /\ call = NoCall
    /\ \E S \in StartLists :
          call' = [op |-> "traceChain", arg |-> S, res |-> traceChain(nodes, edges, S)]
    /\ UNCHANGED <<engineVars, runVars, panelVars, appVars>>

CallTraceImpact ==
    /\ call = NoCall
    /\ \E n \in NodeIds :
          call' = [op |-> "traceImpact", arg |-> n, res |-> traceImpact(edges, n)]
    /\ UNCHANGED <<engineVars, runVars, panelVars, appVars>>

CallTraceDependencies ==
    /\ call = NoCall
    /\ \E n \in NodeIds :
          call' = [op |-> "traceDependencies", arg |-> n, res |-> traceDependencies(edges, n)]
    /\ UNCHANGED <<engineVars, runVars, panelVars, appVars>>

\* traceChain again, on Array.from(result.nodes) of the call that just returned
CallTraceChainAgain ==
    /\ call.op = "traceChain"
    /\ call' = [op |-> "traceChainAgain", arg |-> call.res.nodes, first |-> call.res,
                res |-> traceChain(nodes, edges, call.res.nodes)]
    /\ UNCHANGED <<engineVars, runVars, panelVars, appVars>>

\* the caller is done with the returned value; the engine keeps no trace of the call
Return ==
    /\ call # NoCall
    /\ call' = NoCall
    /\ UNCHANGED <<engineVars, runVars, panelVars, appVars>>

Next ==
    \/ HostAddsNode
    \/ HostAddsEdge
    \/ CallTraceChain
    \/ CallTraceImpact
    \/ CallTraceDependencies
    \/ CallTraceChainAgain
    \/ Return

Spec == Init /\ [][Next]_vars

-----------------------------------------------------------------------------
(* CopilotEngine.queryNodes, CopilotEngine.calculateStats *)

\* n.data.metrics?.achieved, n.data.metrics?.modelType
MetricsAchieved(n) == IF n.metrics = Undefined THEN Undefined ELSE n.metrics.achieved
MetricsModelType(n) == IF n.metrics = Undefined THEN Undefined ELSE n.metrics.modelType

\* the truthiness of a value, as if (v) and !!v take it
Truthy(v) ==
    CASE v.t = "undefined" -> FALSE
      [] v.t = "null" -> FALSE
      [] v.t = "boolean" -> v.v
      [] v.t = "number" -> v.v # 0
      [] v.t = "string" -> v.v # ""
      [] OTHER -> TRUE

\* a QueryCondition: every field is a value, Undefined when the key is not there
MkCondition(category, achieved, modelType, level, hasModel, nodeIds) ==
    [category |-> category, achieved |-> achieved, modelType |-> modelType,
     level |-> level, hasModel |-> hasModel, nodeIds |-> nodeIds]

EmptyCondition == MkCondition(Undefined, Undefined, Undefined, Undefined, Undefined, Undefined)

\* condition.category && condition.category.length > 0
ListGiven(v) == v.t = "array" /\ Len(v.v) > 0

\* result.filter(n => condition.category!.includes(n.data.category))
FilterCategory(ns, condition) ==
    IF ListGiven(condition.category)
    THEN LET keep(n) == n.category \in Range(condition.category.v) IN SelectSeq(ns, keep)
    ELSE ns

\* the achieved filter without the category test
FilterAchievedAnyCategory(ns, condition) ==
    IF condition.achieved # Undefined /\ condition.achieved # Null
    THEN LET keep(n) == MetricsAchieved(n) = condition.achieved IN SelectSeq(ns, keep)
    ELSE ns

\* if (condition.achieved !== undefined && condition.achieved !== null) ...
FilterAchieved(ns, condition) ==
    IF condition.achieved # Undefined /\ condition.achieved # Null
    THEN LET keep(n) == IF n.category # "kpi" THEN FALSE
                        ELSE MetricsAchieved(n) = condition.achieved
         IN SelectSeq(ns, keep)
    ELSE ns

\* if (condition.modelType !== undefined) ...
FilterModelType(ns, condition) ==
    IF condition.modelType # Undefined
    THEN LET keep(n) == IF n.category # "kpi" THEN FALSE
                        ELSE MetricsModelType(n) = condition.modelType
         IN SelectSeq(ns, keep)
    ELSE ns

\* if (condition.level !== undefined) ...
FilterLevel(ns, condition) ==
    IF condition.level # Undefined
    THEN LET keep(n) == n.level = condition.level IN SelectSeq(ns, keep)
    ELSE ns

\* if (condition.hasModel !== undefined) ...
FilterHasModel(ns, condition) ==
    IF condition.hasModel # Undefined
    THEN LET keep(n) == IF n.category # "kpi" THEN FALSE
                        ELSE Bool(Truthy(MetricsModelType(n))) = condition.hasModel
         IN SelectSeq(ns, keep)
    ELSE ns

\* if (condition.nodeIds && condition.nodeIds.length > 0) ...
FilterNodeIds(ns, condition) ==
    IF ListGiven(condition.nodeIds)
    THEN LET keep(n) == n.id \in Range(condition.nodeIds.v) IN SelectSeq(ns, keep)
    ELSE ns

\* queryNodes(condition): Node[], on the array ns
queryNodes(ns, condition) ==
    FilterNodeIds(
        FilterHasModel(
            FilterLevel(
                FilterModelType(
                    FilterAchieved(
                        FilterCategory(ns, condition),
                        condition),
                    condition),
                condition),
            condition),
        condition)

\* the number of elements of s that satisfy Test
Count(s, Test(_)) == Len(SelectSeq(s, Test))

\* byStatus after targetNodes.forEach: only nodes with category 'kpi' and metrics count
byStatusOf(targetNodes) ==
    LET counted(n) == n.category = "kpi" /\ Truthy(n.metrics)
        isAchieved(n) == counted(n) /\ Truthy(n.metrics.achieved)
        isUnachieved(n) == counted(n) /\ ~Truthy(n.metrics.achieved)
        isWithModel(n) == counted(n) /\ Truthy(n.metrics.modelType)
        isWithoutModel(n) == counted(n) /\ ~Truthy(n.metrics.modelType)
    IN [achieved |-> Count(targetNodes, isAchieved),
        unachieved |-> Count(targetNodes, isUnachieved),
        partial |-> 0,
        withModel |-> Count(targetNodes, isWithModel),
        withoutModel |-> Count(targetNodes, isWithoutModel)]

\* byCategory after targetNodes.forEach: a count for each category that occurs
byCategoryOf(targetNodes) ==
    [c \in {targetNodes[i].category : i \in 1..Len(targetNodes)} |->
        LET isC(n) == n.category = c IN Count(targetNodes, isC)]

\* calculateStats(nodes?): targetNodes = nodes || this.nodes
calculateStats(ns, arg) ==
    LET targetNodes == IF Truthy(arg) THEN arg.v ELSE ns
    IN [total |-> Len(targetNodes),
        byCategory |-> byCategoryOf(targetNodes),
        byStatus |-> byStatusOf(targetNodes)]

-----------------------------------------------------------------------------
(* The Graph Store as its callers drive it *)

MaxStoreNodes == 2
MaxFilters == 2

StoreIds == <<"X", "Y", "Z">>

\* the metrics a kpi node may carry: none, or achieved with a modelType that is a
\* model name, null, or not there
StoreMetrics ==
    {Undefined, MkMetrics(TRUE, Str("sysml")), MkMetrics(FALSE, Null),
     MkMetrics(FALSE, Undefined), MkMetrics(TRUE, Str("fmu"))}

\* the node data the host may hand over, apart from the id
StoreNodeData ==
    {[category |-> "kpi", level |-> Num(l), metrics |-> m] : l \in {1, 2}, m \in StoreMetrics}
    \cup {[category |-> "design", level |-> Undefined, metrics |-> Undefined],
          [category |-> "design", level |-> Undefined, metrics |-> MkMetrics(TRUE, Str("sysml"))]}

\* the values each key of a QueryCondition is drawn from, Undefined for a missing key
ConditionValues ==
    [category |-> {Undefined, Arr(<<>>), Arr(<<"kpi">>), Arr(<<"design", "kpi">>)},
     achieved |-> {Undefined, Null, Bool(TRUE), Bool(FALSE)},
     modelType |-> {Undefined, Null, Str("sysml")},
     level |-> {Undefined, Num(1), Num(2)},
     hasModel |-> {Undefined, Bool(TRUE), Bool(FALSE)},
     nodeIds |-> {Undefined, Arr(<<>>), Arr(<<"Y">>), Arr(<<"X", "Z">>)}]

ConditionKeys == DOMAIN ConditionValues

\* the keys a condition has
KeysOf(condition) == {k \in ConditionKeys : condition[k] # Undefined}

Conditions ==
    {c \in {MkCondition(category, achieved, modelType, level, hasModel, nodeIds) :
                category \in ConditionValues.category, achieved \in ConditionValues.achieved,
                modelType \in ConditionValues.modelType, level \in ConditionValues.level,
                hasModel \in ConditionValues.hasModel, nodeIds \in ConditionValues.nodeIds} :
        Cardinality(KeysOf(c)) <= MaxFilters}

InitStore ==
    /\ nodes = <<>>
    /\ edges = <<>>
    /\ call = NoCall
    /\ run = Idle
    /\ PanelUnused

\* the host hands over an array with one more node
StoreHostAddsNode ==
    /\ call = NoCall
    /\ Len(nodes) < MaxStoreNodes
    /\ Len(nodes) < Len(StoreIds)
    /\ \E d \in StoreNodeData :
          updateData(Append(nodes, MkNode(StoreIds[Len(nodes) + 1], d.category, d.level, d.metrics)),
                     edges)
    /\ UNCHANGED <<call, runVars, panelVars, appVars>>

CallQueryNodes ==
    /\ call = NoCall
    /\ \E c \in Conditions :
          call' = [op |-> "queryNodes", arg |-> c, res |-> queryNodes(nodes, c)]
    /\ UNCHANGED <<engineVars, runVars, panelVars, appVars>>

\* calculateStats() on the snapshot, or calculateStats(list) on a list the caller has
CallCalculateStats ==
    /\ call = NoCall
    /\ \E arg \in {Undefined, Arr(nodes), Arr(queryNodes(nodes, [EmptyCondition EXCEPT !.category = Arr(<<"kpi">>)]))} :
          call' = [op |-> "calculateStats", arg |-> arg, res |-> calculateStats(nodes, arg)]
    /\ UNCHANGED <<engineVars, runVars, panelVars, appVars>>

NextStore ==
    \/ StoreHostAddsNode
    \/ CallQueryNodes
    \/ CallCalculateStats
    \/ Return

SpecStore == InitStore /\ [][NextStore]_vars

-----------------------------------------------------------------------------
(* One traversal, one forEach iteration at a time.  A frame of the stack is one  *)
(* activation of traverse / traverseUp / traverseDown: the node it was called on, *)
(* which forEach it is in, and the index of the next edge of that forEach.        *)

MaxRunEdges == 2
MaxRunStart == 1
MaxStack == 4

\* the snapshot the traversal runs on: X and Y are nodes, Z is named by edges only
RunNodes == <<MkNode("X", "kpi", Num(1), Undefined), MkNode("Y", "kpi", Num(1), Undefined)>>

EdgePairs == NodeIds \X NodeIds

RunEdgeLists ==
    UNION {{[i \in 1..n |-> MkEdge(i, f[i][1], f[i][2])] : f \in [1..n -> EdgePairs]} :
           n \in 0..MaxRunEdges}

RunStartLists == UNION {[1..n -> NodeIds] : n \in 0..MaxRunStart}

InitRun ==
    /\ nodes = RunNodes
    /\ edges \in RunEdgeLists
    /\ call = NoCall
    /\ run = Idle
    /\ PanelUnused

\* the first forEach of the traversal function of each entry point
FirstPhase(mode) ==
    CASE mode = "traceChain" -> "in"
      [] mode = "traceImpact" -> "up"
      [] mode = "traceDependencies" -> "down"

\* a visited test that never finds the node
NeverVisited(r, nodeId) == FALSE

\* if (visited.has(nodeId)) return;
AlreadyVisited(r, nodeId) == nodeId \in r.visited

\* a call of traverse / traverseUp / traverseDown on nodeId: it returns at once when
\* the node is visited, else it marks the node and starts its first forEach
EnterTraverse(r, nodeId) ==
    IF AlreadyVisited(r, nodeId) THEN r
    ELSE [r EXCEPT !.visited = @ \cup {nodeId},
                   !.relatedNodes = SetAdd(@, nodeId),
                   !.stack = Append(@, [node |-> nodeId, phase |-> FirstPhase(r.mode), i |-> 1])]

\* the condition of the forEach body of a frame on edge e
EdgeMatches(r, f, e) ==
    CASE f.phase = "in"   -> e.target = f.node /\ e.source \notin r.visited
      [] f.phase = "out"  -> e.source = f.node /\ e.target \notin r.visited
      [] f.phase = "up"   -> e.target = f.node
      [] f.phase = "down" -> e.source = f.node

\* the node at the other end of e, seen from the frame
OtherEnd(f, e) == IF f.phase \in {"in", "up"} THEN e.source ELSE e.target

\* traceChain(startNodeIds), traceImpact(nodeId) or traceDependencies(nodeId) is called
RunBegin ==
    /\ run.pc = "idle"
    /\ \E mode \in {"traceChain", "traceImpact", "traceDependencies"}, S \in RunStartLists :
          /\ mode # "traceChain" => Len(S) = 1
          /\ run' = [Idle EXCEPT !.pc = "running", !.mode = mode, !.starts = S]
    /\ UNCHANGED <<engineVars, call, panelVars, appVars>>

\* startNodeIds.forEach: the next start ID (traceChain skips the IDs that are no node)
RunNextStart ==
    /\ run.pc = "running"
    /\ run.stack = <<>>
    /\ run.si <= Len(run.starts)
    /\ LET id == run.starts[run.si]
           r1 == [run EXCEPT !.si = @ + 1]
       IN run' = IF run.mode = "traceChain" /\ ~HasNode(nodes, id)
                 THEN r1
                 ELSE EnterTraverse(r1, id)
    /\ UNCHANGED <<engineVars, call, panelVars, appVars>>

\* one iteration of the forEach of the innermost activation
RunEdge ==
    /\ run.pc = "running"
    /\ run.stack # <<>>
    /\ Len(run.stack) < MaxStack
    /\ LET d == Len(run.stack)
           f == run.stack[d]
       IN /\ f.i <= Len(edges)
          /\ LET e == edges[f.i]
                 r1 == [run EXCEPT !.stack[d].i = @ + 1]
             IN run' = IF EdgeMatches(run, f, e)
                       THEN EnterTraverse(
                                [r1 EXCEPT !.relatedEdges = SetAdd(@, e.id),
                                           !.relatedNodes = SetAdd(@, OtherEnd(f, e))],
                                OtherEnd(f, e))
                       ELSE r1
    /\ UNCHANGED <<engineVars, call, panelVars, appVars>>

\* a forEach is over: traverse goes on to its second forEach, the others return
RunEndLoop ==
    /\ run.pc = "running"
    /\ run.stack # <<>>
    /\ LET d == Len(run.stack)
           f == run.stack[d]
       IN /\ f.i > Len(edges)
          /\ run' = IF f.phase = "in"
                    THEN [run EXCEPT !.stack[d].phase = "out", !.stack[d].i = 1]
                    ELSE [run EXCEPT !.stack = SubSeq(@, 1, d - 1)]
    /\ UNCHANGED <<engineVars, call, panelVars, appVars>>

\* return { nodes: relatedNodes, edges: relatedEdges }
RunReturn ==
    /\ run.pc = "running"
    /\ run.stack = <<>>
    /\ run.si > Len(run.starts)
    /\ run' = [run EXCEPT !.pc = "done"]
    /\ UNCHANGED <<engineVars, call, panelVars, appVars>>

RunStep == RunNextStart \/ RunEdge \/ RunEndLoop \/ RunReturn

NextRun ==
    \/ RunBegin
    \/ RunNextStart
    \/ RunEdge
    \/ RunEndLoop
    \/ RunReturn

\* a call, once made, runs on to its return: nothing else runs on the single thread
SpecRun == InitRun /\ [][NextRun]_vars /\ WF_vars(RunStep)

-----------------------------------------------------------------------------
(* parseQuery.  A string is the sequence of its characters; a character outside *)
(* ASCII is written "uXXXX", its code point in hexadecimal ("u7edf", "u8ba1" are  *)
(* the two characters of the first stats keyword).                               *)

UpperChars ==
    <<"A", "B", "C", "D", "E", "F", "G", "H", "I", "J", "K", "L", "M",
      "N", "O", "P", "Q", "R", "S", "T", "U", "V", "W", "X", "Y", "Z">>
LowerChars ==
    <<"a", "b", "c", "d", "e", "f", "g", "h", "i", "j", "k", "l", "m",
      "n", "o", "p", "q", "r", "s", "t", "u", "v", "w", "x", "y", "z">>
DigitChars == {"0", "1", "2", "3", "4", "5", "6", "7", "8", "9"}
SpaceChars == {" "}

IsUpper(c) == \E i \in 1..Len(UpperChars) : UpperChars[i] = c
IsLower(c) == \E i \in 1..Len(LowerChars) : LowerChars[i] = c
IsDigit(c) == c \in DigitChars
\* \w of a regular expression without the u flag
IsWordChar(c) == IsUpper(c) \/ IsLower(c) \/ IsDigit(c) \/ c = "_"

\* String.prototype.toLowerCase
toLowerCase(s) ==
    [i \in 1..Len(s) |->
        IF IsUpper(s[i])
        THEN LowerChars[CHOOSE k \in 1..Len(UpperChars) : UpperChars[k] = s[i]]
        ELSE s[i]]

\* String.prototype.trim
trim(s) ==
    LET idx == {i \in 1..Len(s) : s[i] \notin SpaceChars}
    IN IF idx = {} THEN <<>>
       ELSE SubSeq(s, CHOOSE i \in idx : \A j \in idx : i <= j,
                      CHOOSE i \in idx : \A j \in idx : i >= j)

\* String.prototype.includes, and the test of a regular expression that is one literal
Contains(s, k) ==
    \E i \in 1..(Len(s) - Len(k) + 1) : SubSeq(s, i, i + Len(k) - 1) = k

\* /a|b|c/.test(s) for literal alternatives
TestAny(words, s) == \E k \in words : Contains(s, k)

\* /prefix\s*last/.test(s)
TestSpaced(prefix, last, s) ==
    \E i \in 1..Len(s), j \in 1..Len(s) :
        /\ i + Len(prefix) <= j
        /\ SubSeq(s, i, i + Len(prefix) - 1) = prefix
        /\ \A p \in (i + Len(prefix))..(j - 1) : s[p] \in SpaceChars
        /\ s[j] = last

StatsWords ==
    {<<"u7edf", "u8ba1">>, <<"u591a", "u5c11">>, <<"u51e0", "u4e2a">>,
     <<"u6570", "u91cf">>, <<"u5360", "u6bd4">>, <<"u6bd4", "u4f8b">>, <<"u767e", "u5206">>}
ChainWords ==
    {<<"u94fe", "u8def">>, <<"u8def", "u5f84">>, <<"u8ffd", "u8e2a">>, <<"u5173", "u7cfb">>}
ImpactWords ==
    {<<"u5f71", "u54cd">>, <<"u6ce2", "u53ca">>, <<"u8fde", "u5e26">>}
IssueWords ==
    {<<"u95ee", "u9898">>, <<"u74f6", "u9888">>, <<"u98ce", "u9669">>,
     <<"u7f3a", "u5931">>, <<"u7f3a", "u5c11">>}
SuggestWords ==
    {<<"u5efa", "u8bae">>, <<"u63a8", "u8350">>, <<"u4f18", "u5316">>, <<"u6539", "u8fdb">>}
CompareWords ==
    {<<"u5bf9", "u6bd4">>, <<"u6bd4", "u8f83">>, <<"u5dee", "u5f02">>}
CorrelationWords ==
    {<<"u76f8", "u5173">>, <<"u5173", "u8054">>}
HealthWords ==
    {<<"u5065", "u5eb7">>, <<"u8bc4", "u4f30">>, <<"u8bca", "u65ad">>}
PriorityWords ==
    {<<"u4f18", "u5148", "u7ea7">>, <<"u6392", "u5e8f">>, <<"u91cd", "u8981">>}
DisplayWords ==
    {<<"u663e", "u793a">>, <<"u67e5", "u770b">>, <<"u5217", "u51fa">>, <<"u627e", "u51fa">>}

IntentResult(intent, confidence) == [intent |-> intent, confidence |-> confidence]

\* the cascade with the chain rule tested before the stats rule
classifyIntentChainFirst(normalizedQuery) ==
    IF TestAny(ChainWords, normalizedQuery) THEN IntentResult("trace_chain", 90)
    ELSE IF TestAny(StatsWords, normalizedQuery) THEN IntentResult("query_stats", 90)
    ELSE IF TestAny(ImpactWords, normalizedQuery) THEN IntentResult("analyze_impact", 90)
    ELSE IF TestAny(IssueWords, normalizedQuery) THEN IntentResult("find_issues", 80)
    ELSE IF TestAny(SuggestWords, normalizedQuery) THEN IntentResult("suggest", 80)
    ELSE IF TestAny(CompareWords, normalizedQuery) THEN IntentResult("compare", 80)
    ELSE IF TestAny(CorrelationWords, normalizedQuery) THEN IntentResult("correlation", 80)
    ELSE IF TestAny(HealthWords, normalizedQuery) THEN IntentResult("health_check", 90)
    ELSE IF TestAny(PriorityWords, normalizedQuery) THEN IntentResult("prioritize", 80)
    ELSE IF TestAny(DisplayWords, normalizedQuery) THEN IntentResult("query_nodes", 70)
    ELSE IntentResult("unknown", 50)

\* the if / else-if cascade of parseQuery; confidences in hundredths
classifyIntent(normalizedQuery) ==
    IF TestAny(StatsWords, normalizedQuery) THEN IntentResult("query_stats", 90)
    ELSE IF TestAny(ChainWords, normalizedQuery) THEN IntentResult("trace_chain", 90)
    ELSE IF TestAny(ImpactWords, normalizedQuery) THEN IntentResult("analyze_impact", 90)
    ELSE IF TestAny(IssueWords, normalizedQuery) THEN IntentResult("find_issues", 80)
    ELSE IF TestAny(SuggestWords, normalizedQuery) THEN IntentResult("suggest", 80)
    ELSE IF TestAny(CompareWords, normalizedQuery) THEN IntentResult("compare", 80)
    ELSE IF TestAny(CorrelationWords, normalizedQuery) THEN IntentResult("correlation", 80)
    ELSE IF TestAny(HealthWords, normalizedQuery) THEN IntentResult("health_check", 90)
    ELSE IF TestAny(PriorityWords, normalizedQuery) THEN IntentResult("prioritize", 80)
    ELSE IF TestAny(DisplayWords, normalizedQuery) THEN IntentResult("query_nodes", 70)
    ELSE IntentResult("unknown", 50)

\* \b at position p of s: between s[p-1] and s[p], the ends counting as non-word
WordBoundary(s, p) ==
    LET before == p > 1 /\ IsWordChar(s[p - 1])
        after == p <= Len(s) /\ IsWordChar(s[p])
    IN before # after

\* the end (exclusive) of the match of /\b([A-Z_]+\d*)\b/ that starts at i, 0 for none:
\* a run of m >= 1 letters A-Z or _, then d >= 0 digits, a \b on either side; the
\* greedy quantifiers take the longest m, then the longest d, that let the match succeed
MatchIdAt(s, i) ==
    LET cands == {md \in (1..(Len(s) - i + 1)) \X (0..(Len(s) - i)) :
                    /\ i + md[1] + md[2] - 1 <= Len(s)
                    /\ \A p \in i..(i + md[1] - 1) : IsUpper(s[p]) \/ s[p] = "_"
                    /\ \A p \in (i + md[1])..(i + md[1] + md[2] - 1) : IsDigit(s[p])
                    /\ WordBoundary(s, i + md[1] + md[2])}
    IN IF ~WordBoundary(s, i) \/ cands = {} THEN 0
       ELSE LET best == CHOOSE md \in cands :
                           \A o \in cands : o[1] < md[1] \/ (o[1] = md[1] /\ o[2] <= md[2])
            IN i + best[1] + best[2]

RECURSIVE matchIds(_, _)
\* query.match(/\b([A-Z_]+\d*)\b/g): the matches from position i on, left to right
matchIds(s, i) ==
    IF i > Len(s) THEN <<>>
    ELSE IF MatchIdAt(s, i) = 0 THEN matchIds(s, i + 1)
         ELSE <<SubSeq(s, i, MatchIdAt(s, i) - 1)>> \o matchIds(s, MatchIdAt(s, i))

IdPrefixes ==
    {<<"K", "P", "I", "_">>, <<"D", "_">>, <<"V", "_">>, <<"G", "_">>}

\* /^(KPI_|D_|V_|G_)/.test(id)
HasIdPrefix(id) ==
    \E p \in IdPrefixes : Len(id) >= Len(p) /\ SubSeq(id, 1, Len(p)) = p

MkEntity(type, value, confidence) == [type |-> type, value |-> value, confidence |-> confidence]

\* nodeIdMatches.forEach(id => { if (/^(KPI_|D_|V_|G_)/.test(id)) entities.push(...) })
nodeIdEntities(query) ==
    LET ms == matchIds(query, 1)
        keep(id) == HasIdPrefix(id)
        kept == SelectSeq(ms, keep)
    IN [i \in 1..Len(kept) |-> MkEntity("node_id", kept[i], 95)]

\* aliasMap, in the order of its keys
AliasMap ==
    <<[alias |-> <<"u6298", "u53e0", "u65f6", "u95f4">>, id |-> <<"K", "P", "I", "_", "F", "o", "l", "d", "T", "i", "m", "e">>],
      [alias |-> <<"u7a7a", "u95f4", "u6536", "u76ca">>, id |-> <<"K", "P", "I", "_", "S", "p", "a", "c", "e", "G", "a", "i", "n">>],
      [alias |-> <<"u7528", "u6237", "u4f53", "u9a8c">>, id |-> <<"K", "P", "I", "_", "U", "X">>],
      [alias |-> <<"u5b89", "u5168", "u6027">>, id |-> <<"K", "P", "I", "_", "S", "a", "f", "e", "t", "y">>],
      [alias |-> <<"n", "v", "h">>, id |-> <<"K", "P", "I", "_", "N", "V", "H">>],
      [alias |-> <<"u6210", "u672c">>, id |-> <<"K", "P", "I", "_", "C", "o", "s", "t">>],
      [alias |-> <<"u53ef", "u9760", "u6027">>, id |-> <<"K", "P", "I", "_", "R", "e", "l", "i", "a", "b", "i", "l", "i", "t", "y">>],
      [alias |-> <<"u7535", "u673a", "u626d", "u77e9">>, id |-> <<"D", "_", "M", "o", "t", "o", "r", "T", "o", "r", "q", "u", "e">>],
      [alias |-> <<"u63a7", "u5236", "u7b97", "u6cd5">>, id |-> <<"D", "_", "C", "o", "n", "t", "r", "o", "l", "A", "l", "g", "o">>]>>

\* Object.entries(aliasMap).forEach(([alias, id]) => { if (normalizedQuery.includes(...)) ... })
aliasEntities(normalizedQuery) ==
    LET hit(a) == Contains(normalizedQuery, toLowerCase(a.alias))
        hits == SelectSeq(AliasMap, hit)
    IN [i \in 1..Len(hits) |-> MkEntity("node_id", hits[i].id, 90)]

UnachievedWords ==
    {<<"u672a", "u8fbe", "u6210">>, <<"u672a", "u5b8c", "u6210">>,
     <<"u4e0d", "u8fbe", "u6807">>}
AchievedWords ==
    {<<"u5df2", "u8fbe", "u6210">>, <<"u5b8c", "u6210">>, <<"u8fbe", "u6807">>}

\* a status rule that tries the achieved words first
statusEntitiesAchievedFirst(normalizedQuery) ==
    IF TestAny(AchievedWords, normalizedQuery) THEN <<MkEntity("status", "achieved", 90)>>
    ELSE IF TestAny(UnachievedWords, normalizedQuery) THEN <<MkEntity("status", "unachieved", 90)>>
    ELSE <<>>

\* if (/.../.test(normalizedQuery)) {...} else if (/.../.test(normalizedQuery)) {...}
statusEntities(normalizedQuery) ==
    IF TestAny(UnachievedWords, normalizedQuery) THEN <<MkEntity("status", "unachieved", 90)>>
    ELSE IF TestAny(AchievedWords, normalizedQuery) THEN <<MkEntity("status", "achieved", 90)>>
    ELSE <<>>

SysmlWords ==
    {<<"s", "y", "s", "m", "l">>, <<"u7cfb", "u7edf", "u5efa", "u6a21">>}
SimulinkWords ==
    {<<"s", "i", "m", "u", "l", "i", "n", "k">>, <<"u4eff", "u771f">>}
ModelicaWords ==
    {<<"m", "o", "d", "e", "l", "i", "c", "a">>}
FmuWords ==
    {<<"f", "m", "u">>}
\* /(u975e)?u6a21u578b|u6ca1u6709u6a21u578b/: with and without the optional first character
NoModelWords ==
    {<<"u975e", "u6a21", "u578b">>, <<"u6a21", "u578b">>,
     <<"u6ca1", "u6709", "u6a21", "u578b">>}

modelTypeEntities(normalizedQuery) ==
    IF TestAny(SysmlWords, normalizedQuery) THEN <<MkEntity("model_type", "sysml", 95)>>
    ELSE IF TestAny(SimulinkWords, normalizedQuery) THEN <<MkEntity("model_type", "simulink", 95)>>
    ELSE IF TestAny(ModelicaWords, normalizedQuery) THEN <<MkEntity("model_type", "modelica", 95)>>
    ELSE IF TestAny(FmuWords, normalizedQuery) THEN <<MkEntity("model_type", "fmu", 95)>>
    ELSE IF TestAny(NoModelWords, normalizedQuery) THEN <<MkEntity("model_type", "none", 90)>>
    ELSE <<>>

Level1Words ==
    {<<"u4e00", "u7ea7">>, <<"1", "u7ea7">>}
Level2Words ==
    {<<"u4e8c", "u7ea7">>, <<"2", "u7ea7">>}

levelEntities(normalizedQuery) ==
    IF TestAny(Level1Words, normalizedQuery) \/ TestSpaced(<<"l", "e", "v", "e", "l">>, "1", normalizedQuery)
    THEN <<MkEntity("level", "1", 90)>>
    ELSE IF TestAny(Level2Words, normalizedQuery) \/ TestSpaced(<<"l", "e", "v", "e", "l">>, "2", normalizedQuery)
    THEN <<MkEntity("level", "2", 90)>>
    ELSE <<>>

GoalWords ==
    {<<"u76ee", "u6807">>}
\* the second alternative is kpi, with the i flag, on the lowercased query
KpiWords ==
    {<<"u6307", "u6807">>, <<"k", "p", "i">>}
DesignWords ==
    {<<"u8bbe", "u8ba1">>, <<"u53c2", "u6570">>}
VerifyWords ==
    {<<"u9a8c", "u8bc1">>, <<"u4eff", "u771f">>}

categoryEntities(normalizedQuery) ==
    IF TestAny(GoalWords, normalizedQuery) THEN <<MkEntity("category", "goal", 90)>>
    ELSE IF TestAny(KpiWords, normalizedQuery) THEN <<MkEntity("category", "kpi", 90)>>
    ELSE IF TestAny(DesignWords, normalizedQuery) THEN <<MkEntity("category", "design", 90)>>
    ELSE IF TestAny(VerifyWords, normalizedQuery) THEN <<MkEntity("category", "verify", 90)>>
    ELSE <<>>

\* parseQuery(query): ParsedQuery
parseQuery(query) ==
    LET normalizedQuery == trim(toLowerCase(query))
        ic == classifyIntent(normalizedQuery)
    IN [rawQuery |-> query,
        intent |-> ic.intent,
        entities |-> nodeIdEntities(query) \o aliasEntities(normalizedQuery)
                       \o statusEntities(normalizedQuery) \o modelTypeEntities(normalizedQuery)
                       \o levelEntities(normalizedQuery) \o categoryEntities(normalizedQuery),
        confidence |-> ic.confidence]

-----------------------------------------------------------------------------
(* The parser as its callers drive it *)

MaxFrags == 2

\* pieces of query text: one keyword of each intent rule, separators, node ids
Fragments ==
    {<<"u7edf", "u8ba1">>, <<"u94fe", "u8def">>, <<"u5f71", "u54cd">>, <<"u74f6", "u9888">>, <<"u5efa", "u8bae">>,
     <<"u5bf9", "u6bd4">>, <<"u76f8", "u5173">>, <<"u5065", "u5eb7">>, <<"u4f18", "u5148", "u7ea7">>, <<"u663e", "u793a">>,
     <<" ">>, <<"u7684">>, <<"K", "P", "I", "_", "F", "o", "l", "d", "T", "i", "m", "e">>, <<"K", "P", "I", "_", "N", "V", "H">>,
     <<"D", "_", "M", "o", "t", "o", "r", "T", "o", "r", "q", "u", "e">>, <<"V", "_", "T", "E", "S", "T", "1">>, <<"G", "1">>}

RECURSIVE Concat(_)
Concat(fs) == IF fs = <<>> THEN <<>> ELSE Head(fs) \o Concat(Tail(fs))

FragmentQueries == {Concat(fs) : fs \in UNION {[1..n -> Fragments] : n \in 0..MaxFrags}}

\* the queries the code itself names: QUICK_COMMANDS, the help text of
\* generateUnknownResponse, the prompt of generateTraceChainResponse
AdvertisedQueries ==
    {<<"u7edf", "u8ba1", "u6307", "u6807", "u8fbe", "u6210", "u60c5", "u51b5">>,
     <<"u663e", "u793a", "u6240", "u6709", "u672a", "u8fbe", "u6210", "u7684", "u6307", "u6807">>,
     <<"u7edf", "u8ba1", "u6a21", "u578b", "u8986", "u76d6", "u7387">>,
     <<"u7cfb", "u7edf", "u5065", "u5eb7", "u5ea6", "u68c0", "u67e5">>,
     <<"u6a21", "u578b", "u8986", "u76d6", "u7387", "u7edf", "u8ba1">>,
     <<"u663e", "u793a", "u6ca1", "u6709", "u6a21", "u578b", "u7684", "u4e00", "u7ea7", "u6307", "u6807">>,
     <<"K", "P", "I", "_", "S", "p", "a", "c", "e", "G", "a", "i", "n", " ", "u7684", "u94fe", "u8def">>,
     <<"D", "_", "M", "o", "t", "o", "r", "T", "o", "r", "q", "u", "e", " ", "u7684", "u5f71", "u54cd", "u5206", "u6790">>,
     <<"u8bc6", "u522b", "u74f6", "u9888">>,
     <<"u54ea", "u4e9b", "u6307", "u6807", "u7f3a", "u5c11", "u9a8c", "u8bc1">>,
     <<"K", "P", "I", "_", "F", "o", "l", "d", "T", "i", "m", "e", " ", "u7684", "u94fe", "u8def">>}

\* pieces of query text with the keywords of the entity rules: of status ("u672a"
\* "u5b8c" "u6210" holds a keyword of both classes), model type, level and category
EntityFragments ==
    {<<"u672a", "u5b8c", "u6210">>, <<"u8fbe", "u6807">>,
     <<"S", "y", "s", "M", "L">>, <<"u4eff", "u771f">>, <<"m", "o", "d", "e", "l", "i", "c", "a">>,
     <<"f", "m", "u">>, <<"u6a21", "u578b">>,
     <<"u4e8c", "u7ea7">>, <<"1", "u7ea7">>, <<"l", "e", "v", "e", "l", " ", "2">>,
     <<"u76ee", "u6807">>, <<"K", "P", "I">>, <<"u8bbe", "u8ba1">>, <<"u9a8c", "u8bc1">>}

EntityQueries == {Concat(fs) : fs \in UNION {[1..n -> EntityFragments] : n \in 0..MaxFrags}}

\* the query of the intent-priority test
PriorityTestQuery == <<"u7edf", "u8ba1", " ", "K", "P", "I", "_", "F", "o", "l", "d", "T", "i", "m", "e", " ", "u7684", "u94fe", "u8def">>

Queries == FragmentQueries \cup EntityQueries \cup AdvertisedQueries \cup {PriorityTestQuery}

InitParser ==
    /\ nodes = <<>>
    /\ edges = <<>>
    /\ call = NoCall
    /\ run = Idle
    /\ PanelUnused

CallParseQuery ==
    /\ call = NoCall
    /\ \E q \in Queries :
          call' = [op |-> "parseQuery", arg |-> q, res |-> parseQuery(q)]
    /\ UNCHANGED <<engineVars, runVars, panelVars, appVars>>

NextParser ==
    \/ CallParseQuery
    \/ Return

SpecParser == InitParser /\ [][NextParser]_vars

-----------------------------------------------------------------------------
(* CopilotEngine.getConnectedNodes *)

\* connectedIds after this.edges.forEach, for direction 'incoming', 'outgoing', 'both'
connectedIdsOf(es, nodeId, direction) ==
    {es[i].source : i \in {j \in 1..Len(es) :
        direction \in {"incoming", "both"} /\ es[j].target = nodeId}}
    \cup
    {es[i].target : i \in {j \in 1..Len(es) :
        direction \in {"outgoing", "both"} /\ es[j].source = nodeId}}

\* getConnectedNodes(nodeId, direction): this.nodes.filter(n => connectedIds.has(n.id))
getConnectedNodes(ns, es, nodeId, direction) ==
    LET ids == connectedIdsOf(es, nodeId, direction)
        keep(n) == n.id \in ids
    IN SelectSeq(ns, keep)

-----------------------------------------------------------------------------
(* Number arithmetic of the analyzer: IEEE 754 binary64, round to nearest, ties   *)
(* to even.  A natural number is the sequence of its bits, least significant      *)
(* first.  A positive double is [m, e]: m has DblPrecision bits, the top one set, *)
(* and the value is m * 2^e; zero is DblZero.  The values of the analyzer lie     *)
(* between 0 and 100, far from the subnormal and the overflow range.              *)

DblPrecision == 53

DblZero == [m |-> <<>>, e |-> 0]

RECURSIVE BitsOfNat(_)
\* the bits of a small natural number
BitsOfNat(n) == IF n = 0 THEN <<>> ELSE <<n % 2>> \o BitsOfNat(n \div 2)

\* the bit of weight 2^(k-1)
BitAt(x, k) == IF k \in 1..Len(x) THEN x[k] ELSE 0

RECURSIVE Carried(_, _, _)
\* the bits of the number whose columns, from column i on, hold the sums c
Carried(c, i, carry) ==
    IF i > Len(c)
    THEN IF carry = 0 THEN <<>> ELSE <<carry % 2>> \o Carried(c, i, carry \div 2)
    ELSE <<(c[i] + carry) % 2>> \o Carried(c, i + 1, (c[i] + carry) \div 2)

NatAdd(x, y) ==
    Carried([k \in 1..(IF Len(x) > Len(y) THEN Len(x) ELSE Len(y)) |->
                BitAt(x, k) + BitAt(y, k)], 1, 0)

NatMul(x, y) ==
    IF x = <<>> \/ y = <<>> THEN <<>>
    ELSE Carried([k \in 1..(Len(x) + Len(y) - 1) |->
                    Cardinality({i \in 1..Len(x) : x[i] = 1 /\ BitAt(y, k + 1 - i) = 1})],
                 1, 0)

\* x * 2^d
NatShiftLeft(x, d) == [k \in 1..(Len(x) + d) |-> IF k <= d THEN 0 ELSE x[k - d]]

\* the position of the highest bit set, 0 for zero
TopBit(x) ==
    IF \A k \in 1..Len(x) : x[k] = 0 THEN 0
    ELSE CHOOSE k \in 1..Len(x) : x[k] = 1 /\ \A j \in (k + 1)..Len(x) : x[j] = 0

NatLess(x, y) ==
    \E k \in 1..(IF Len(x) > Len(y) THEN Len(x) ELSE Len(y)) :
        /\ BitAt(x, k) < BitAt(y, k)
        /\ \A j \in (k + 1)..(IF Len(x) > Len(y) THEN Len(x) ELSE Len(y)) :
              BitAt(x, j) = BitAt(y, j)

NatEqual(x, y) == ~NatLess(x, y) /\ ~NatLess(y, x)

\* the double nearest to x * 2^e, ties to even
DblRound(x, e) ==
    LET n == TopBit(x)
    IN IF n = 0 THEN DblZero
       ELSE IF n <= DblPrecision
       THEN [m |-> [k \in 1..DblPrecision |-> BitAt(x, k - (DblPrecision - n))],
             e |-> e - (DblPrecision - n)]
       ELSE LET s == n - DblPrecision
                q == [k \in 1..DblPrecision |-> x[k + s]]
                guard == x[s]
                sticky == \E k \in 1..(s - 1) : x[k] = 1
                roundUp == guard = 1 /\ (sticky \/ q[1] = 1)
                up == NatAdd(q, <<1>>)
            IN IF ~roundUp THEN [m |-> q, e |-> e + s]
               ELSE IF Len(up) > DblPrecision
               THEN [m |-> [k \in 1..DblPrecision |-> up[k + 1]], e |-> e + s + 1]
               ELSE [m |-> up, e |-> e + s]

\* a natural number as a Number
DblOfNat(n) == DblRound(BitsOfNat(n), 0)

RECURSIVE DivBits(_, _, _, _)
\* k more bits of the quotient r / b, r < b, after the bits acc; the remainder left
DivBits(r, b, k, acc) ==
    IF k = 0 THEN [bits |-> acc, rem |-> r]
    ELSE DivBits((2 * r) % b, b, k - 1, <<(2 * r) \div b>> \o acc)

\* a / b for natural numbers a and b > 0: the quotient carried far enough for the
\* rounding, with a last bit that tells whether anything is left
DblDiv(a, b) ==
    LET s == DblPrecision + 2 + Len(BitsOfNat(b))
        d == DivBits(a % b, b, s, BitsOfNat(a \div b))
    IN DblRound(<<IF d.rem = 0 THEN 0 ELSE 1>> \o d.bits, 0 - (s + 1))

\* x * y
DblMul(x, y) ==
    IF x = DblZero \/ y = DblZero THEN DblZero
    ELSE DblRound(NatMul(x.m, y.m), x.e + y.e)

\* x + y
DblAdd(x, y) ==
    IF x = DblZero THEN y
    ELSE IF y = DblZero THEN x
    ELSE LET e == IF x.e < y.e THEN x.e ELSE y.e
         IN DblRound(NatAdd(NatShiftLeft(x.m, x.e - e), NatShiftLeft(y.m, y.e - e)), e)

\* x < y
DblLess(x, y) ==
    IF y = DblZero THEN FALSE
    ELSE IF x = DblZero THEN TRUE
    ELSE x.e < y.e \/ (x.e = y.e /\ NatLess(x.m, y.m))

\* x >= y
DblAtLeast(x, y) == ~DblLess(x, y)

\* the literals of the analyzer
Dbl100 == DblOfNat(100)
DblHalf == DblDiv(5, 10)
DblThreeTenths == DblDiv(3, 10)
DblTwoTenths == DblDiv(2, 10)

\* (count / total) * 100
DblPercent(count, total) == DblMul(DblDiv(count, total), Dbl100)

-----------------------------------------------------------------------------
(* AdvancedAnalyzer.  The analyzer holds the engine (arrays ns, es) and the      *)
(* arrays it was constructed with (ans).                                         *)

\* { category: ['kpi'] }
KpiCondition ==
    MkCondition(Arr(<<"kpi">>), Undefined, Undefined, Undefined, Undefined, Undefined)

\* n.data.metrics?.achievementRate
MetricsRate(n) ==
    IF n.metrics = Undefined THEN Undefined
    ELSE IF "achievementRate" \in DOMAIN n.metrics THEN n.metrics.achievementRate
    ELSE Undefined

\* v || d
OrElse(v, d) == IF Truthy(v) THEN v ELSE d

\* the ids of getConnectedNodes(id, 'outgoing').filter(n => n.data.category === cat)
OutgoingOfCategory(ns, es, nodeId, cat) ==
    LET keep(n) == n.category = cat
    IN SelectSeq(getConnectedNodes(ns, es, nodeId, "outgoing"), keep)

\* getConnectedNodes(id, 'outgoing').some(n => n.data.category === 'verify')
HasVerify(ns, es, nodeId) == OutgoingOfCategory(ns, es, nodeId, "verify") # <<>>

\* Array.prototype.sort((a, b) => b.key - a.key): stable, descending.  The elements
\* are [key, item]; an element goes after every element whose key is not smaller.
InsertByKeyDesc(sorted, x) ==
    LET notSmaller(y) == y.key >= x.key
        p == Len(SelectSeq(sorted, notSmaller))
    IN SubSeq(sorted, 1, p) \o <<x>> \o SubSeq(sorted, p + 1, Len(sorted))

RECURSIVE SortByKeyDesc(_)
SortByKeyDesc(s) ==
    IF s = <<>> THEN <<>>
    ELSE InsertByKeyDesc(SortByKeyDesc(SubSeq(s, 1, Len(s) - 1)), s[Len(s)])

\* the items of a sorted list of [key, item]
Items(s) == [i \in 1..Len(s) |-> s[i].item]

\* arr.slice(0, n)
Slice(s, n) == SubSeq(s, 1, IF Len(s) < n THEN Len(s) ELSE n)

\* find(n => n.id === kpiId && n.data.category === 'kpi')
FindKpi(ans, kpiId) ==
    LET isIt(n) == n.id = kpiId /\ n.category = "kpi"
        found == SelectSeq(ans, isIt)
    IN IF found = <<>> THEN Undefined ELSE Head(found)

\* compareKPIs(kpiId1, kpiId2): ComparisonResult | null
compareKPIs(ns, es, ans, kpiId1, kpiId2) ==
    LET kpi1 == FindKpi(ans, kpiId1)
        kpi2 == FindKpi(ans, kpiId2)
    IN IF kpi1 = Undefined \/ kpi2 = Undefined THEN Null
       ELSE LET rate1 == OrElse(MetricsRate(kpi1), Num(0)).v
                rate2 == OrElse(MetricsRate(kpi2), Num(0)).v
                better == IF rate1 > rate2 THEN "entity1"
                          ELSE IF rate1 < rate2 THEN "entity2" ELSE "equal"
                designParams1 == Len(OutgoingOfCategory(ns, es, kpiId1, "design"))
                designParams2 == Len(OutgoingOfCategory(ns, es, kpiId2, "design"))
                verifications1 == Len(OutgoingOfCategory(ns, es, kpiId1, "verify"))
                verifications2 == Len(OutgoingOfCategory(ns, es, kpiId2, "verify"))
            IN [entity1 |-> kpi1.label,
                entity2 |-> kpi2.label,
                metrics |->
                  <<[name |-> "rate", value1 |-> Num(rate1), value2 |-> Num(rate2),
                     diff |-> Num(rate1 - rate2), better |-> better],
                    [name |-> "level", value1 |-> OrElse(kpi1.level, Num(1)),
                     value2 |-> OrElse(kpi2.level, Num(1)), diff |-> Undefined,
                     better |-> "none"],
                    [name |-> "modelType",
                     value1 |-> OrElse(MetricsModelType(kpi1), Str("none")),
                     value2 |-> OrElse(MetricsModelType(kpi2), Str("none")),
                     diff |-> Undefined, better |-> "none"],
                    [name |-> "designParams", value1 |-> Num(designParams1),
                     value2 |-> Num(designParams2),
                     diff |-> Num(designParams1 - designParams2), better |-> "none"],
                    [name |-> "verifications", value1 |-> Num(verifications1),
                     value2 |-> Num(verifications2),
                     diff |-> Num(verifications1 - verifications2), better |-> "none"]>>,
                summary |-> [better |-> better,
                             diffPercent |-> IF rate1 >= rate2 THEN rate1 - rate2
                                             ELSE rate2 - rate1]]

\* generateCorrelationInsight(kpi1, kpi2, sharedDesign, sharedVerify)
generateCorrelationInsight(kpi1, kpi2, sharedDesign, sharedVerify) ==
    LET neither == ~Truthy(MetricsAchieved(kpi1)) /\ ~Truthy(MetricsAchieved(kpi2))
        oneAchieved == MetricsAchieved(kpi1) # MetricsAchieved(kpi2)
    IN IF sharedDesign >= 2
       THEN IF neither THEN "optimizeShared"
            ELSE IF oneAchieved THEN "otherFactors" ELSE "designWorks"
       ELSE "related"

\* the body of the two loops of analyzeCorrelations for the pair (kpis[i], kpis[j]):
\* the list of the correlation pushed, empty when nothing is shared
correlationOf(ns, es, kpi1, kpi2) ==
    LET idsOf(s) == {s[k].id : k \in 1..Len(s)}
        sharedDesign == Cardinality(idsOf(OutgoingOfCategory(ns, es, kpi1.id, "design"))
                          \cap idsOf(OutgoingOfCategory(ns, es, kpi2.id, "design")))
        sharedVerify == Cardinality(idsOf(OutgoingOfCategory(ns, es, kpi1.id, "verify"))
                          \cap idsOf(OutgoingOfCategory(ns, es, kpi2.id, "verify")))
    IN IF sharedDesign > 0 \/ sharedVerify > 0
       THEN <<[kpi1 |-> [id |-> kpi1.id, name |-> kpi1.label,
                         achieved |-> Truthy(MetricsAchieved(kpi1))],
               kpi2 |-> [id |-> kpi2.id, name |-> kpi2.label,
                         achieved |-> Truthy(MetricsAchieved(kpi2))],
               sharedDesignParams |-> sharedDesign,
               sharedVerifications |-> sharedVerify,
               correlationStrength |-> IF sharedDesign >= 2 THEN "strong"
                                       ELSE IF sharedDesign >= 1 THEN "medium" ELSE "weak",
               insight |-> generateCorrelationInsight(kpi1, kpi2, sharedDesign,
                                                      sharedVerify)]>>
       ELSE <<>>

RECURSIVE correlationsFrom(_, _, _, _, _)
\* for (i = 0; ...) for (j = i + 1; ...), from the pair (i, j) on
correlationsFrom(ns, es, kpis, i, j) ==
    IF i > Len(kpis) THEN <<>>
    ELSE IF j > Len(kpis) THEN correlationsFrom(ns, es, kpis, i + 1, i + 2)
    ELSE correlationOf(ns, es, kpis[i], kpis[j]) \o correlationsFrom(ns, es, kpis, i, j + 1)

\* analyzeCorrelations()
analyzeCorrelations(ns, es) ==
    LET kpis == queryNodes(ns, KpiCondition)
        correlations == correlationsFrom(ns, es, kpis, 1, 2)
        keyed == [k \in 1..Len(correlations) |->
                    [key |-> correlations[k].sharedDesignParams, item |-> correlations[k]]]
    IN Items(SortByKeyDesc(keyed))

\* the body of the loop of prioritizeNodes for one kpi: the list of the entry pushed,
\* empty when the score is 0
priorityOf(ns, es, kpi) ==
    LET unachieved == ~Truthy(MetricsAchieved(kpi))
        noModel == ~Truthy(MetricsModelType(kpi))
        noVerify == ~HasVerify(ns, es, kpi.id)
        levelOne == kpi.level = Num(1)
        impactSize == Len(traceDependencies(es, kpi.id).nodes)
        score == (IF unachieved THEN 50 ELSE 0) + (IF noModel THEN 30 ELSE 0)
                 + (IF noVerify THEN 20 ELSE 0) + (IF levelOne THEN 10 ELSE 0)
                 + (IF impactSize < 20 THEN impactSize ELSE 20)
        reasons == (IF unachieved THEN <<"unachieved">> ELSE <<>>)
                   \o (IF noModel THEN <<"noModel">> ELSE <<>>)
                   \o (IF noVerify THEN <<"noVerify">> ELSE <<>>)
                   \o (IF levelOne THEN <<"levelOne">> ELSE <<>>)
                   \o (IF impactSize > 5 THEN <<"impact">> ELSE <<>>)
    IN IF score > 0
       THEN <<[nodeId |-> kpi.id, nodeName |-> kpi.label, category |-> kpi.category,
               priorityScore |-> score, reasons |-> reasons]>>
       ELSE <<>>

RECURSIVE prioritiesFrom(_, _, _, _)
\* for (const kpi of kpis), from kpis[i] on
prioritiesFrom(ns, es, kpis, i) ==
    IF i > Len(kpis) THEN <<>>
    ELSE priorityOf(ns, es, kpis[i]) \o prioritiesFrom(ns, es, kpis, i + 1)

\* prioritizeNodes()
prioritizeNodes(ns, es) ==
    LET priorities == prioritiesFrom(ns, es, queryNodes(ns, KpiCondition), 1)
        keyed == [k \in 1..Len(priorities) |->
                    [key |-> priorities[k].priorityScore, item |-> priorities[k]]]
    IN Items(SortByKeyDesc(keyed))

-----------------------------------------------------------------------------
(* ResponseGenerator: the handlers of every intent but query_stats and            *)
(* health_check.                                                                 *)
(* A generator holds the engine (whose arrays are ens, ees) and the arrays it    *)
(* was constructed with (gns).  The content of a response is the record of its  *)
(* template and of the values interpolated into it.                             *)

\* a node as the response generator reads it: the engine's fields and
\* n.data.label, n.data.description
MkLabelledNode(id, category, metrics, label, description) ==
    [id |-> id, category |-> category, level |-> Undefined, metrics |-> metrics,
     label |-> label, description |-> description]

\* parsed.entities.find(e => e.type === 'node_id')
FindNodeIdEntity(parsed) ==
    LET isId(e) == e.type = "node_id"
        found == SelectSeq(parsed.entities, isId)
    IN IF found = <<>> THEN Undefined ELSE Head(found)

\* a lookup that settles for the first node of the array
FindAnyNode(gns, nodeId) ==
    IF gns = <<>> THEN Undefined ELSE Head(gns)

\* this.nodes.find(n => n.id === nodeId)
FindNode(gns, nodeId) ==
    LET isIt(n) == n.id = nodeId
        found == SelectSeq(gns, isIt)
    IN IF found = <<>> THEN Undefined ELSE Head(found)

\* nodesByCategory[cat] = (nodesByCategory[cat] || 0) + 1, keys in insertion order
BumpCategory(acc, cat) ==
    IF \E k \in 1..Len(acc) : acc[k].cat = cat
    THEN [k \in 1..Len(acc) |->
            IF acc[k].cat = cat THEN [cat |-> cat, count |-> acc[k].count + 1] ELSE acc[k]]
    ELSE Append(acc, [cat |-> cat, count |-> 1])

RECURSIVE nodesByCategory(_, _, _, _)
\* Array.from(chain.nodes).forEach(id => { const node = this.nodes.find(...); if (node) ... })
nodesByCategory(gns, ids, i, acc) ==
    IF i > Len(ids) THEN acc
    ELSE LET node == FindNode(gns, ids[i])
         IN nodesByCategory(gns, ids, i + 1,
                IF node = Undefined THEN acc ELSE BumpCategory(acc, node.category))

\* generateTraceChainResponse(parsed)
generateTraceChainResponse(ens, ees, gns, parsed) ==
    LET nodeIdEntity == FindNodeIdEntity(parsed)
    IN IF nodeIdEntity = Undefined
       THEN [content |-> [kind |-> "askChainNodeId"], nodes |-> Undefined,
             edges |-> Undefined, action |-> Undefined]
       ELSE LET nodeId == nodeIdEntity.value
                targetNode == FindNode(gns, nodeId)
            IN IF targetNode = Undefined
               THEN [content |-> [kind |-> "nodeNotFound", nodeId |-> nodeId],
                     nodes |-> Undefined, edges |-> Undefined, action |-> Undefined]
               ELSE LET chain == traceChain(ens, ees, <<nodeId>>)
                    IN [content |-> [kind |-> "chain",
                                     label |-> targetNode.label,
                                     description |-> targetNode.description,
                                     totalNodes |-> Len(chain.nodes),
                                     totalEdges |-> Len(chain.edges),
                                     byCategory |-> nodesByCategory(gns, chain.nodes, 1, <<>>)],
                        nodes |-> Arr(chain.nodes),
                        edges |-> Arr(chain.edges),
                        action |-> Str("highlight")]

\* Array.from(impact.nodes).map(id => this.nodes.find(n => n.id === id))
\*      .filter(n => n && n.data.category === 'kpi')
affectedKPIsOf(gns, ids) ==
    LET found == [i \in 1..Len(ids) |-> FindNode(gns, ids[i])]
        isKpi(n) == n # Undefined /\ n.category = "kpi"
    IN SelectSeq(found, isKpi)

\* affectedKPIs.slice(0, 5).map(n => `- ${n.data.metrics?.achieved ? ok : no} ${n.data.label}`)
affectedLines(kpis) ==
    [i \in 1..(IF Len(kpis) < 5 THEN Len(kpis) ELSE 5) |->
        [achieved |-> Truthy(MetricsAchieved(kpis[i])), label |-> kpis[i].label]]

\* generateImpactAnalysisResponse(parsed)
generateImpactAnalysisResponse(ens, ees, gns, parsed) ==
    LET nodeIdEntity == FindNodeIdEntity(parsed)
    IN IF nodeIdEntity = Undefined
       THEN [content |-> [kind |-> "askImpactNodeId"], nodes |-> Undefined,
             edges |-> Undefined, action |-> Undefined]
       ELSE LET nodeId == nodeIdEntity.value
                targetNode == FindNode(gns, nodeId)
            IN IF targetNode = Undefined
               THEN [content |-> [kind |-> "nodeNotFound", nodeId |-> nodeId],
                     nodes |-> Undefined, edges |-> Undefined, action |-> Undefined]
               ELSE LET impact == traceImpact(ees, nodeId)
                        affectedKPIs == affectedKPIsOf(gns, impact.nodes)
                    IN [content |-> [kind |-> "impact",
                                     label |-> targetNode.label,
                                     description |-> targetNode.description,
                                     category |-> targetNode.category,
                                     totalNodes |-> Len(impact.nodes),
                                     totalKPIs |-> Len(affectedKPIs),
                                     lines |-> affectedLines(affectedKPIs),
                                     more |-> IF Len(affectedKPIs) > 5
                                              THEN Len(affectedKPIs) - 5 ELSE 0],
                        nodes |-> Arr(impact.nodes),
                        edges |-> Arr(impact.edges),
                        action |-> Str("highlight")]

\* a help text that repeats the query
generateUnknownEcho(parsed) ==
    [content |-> [kind |-> "help", query |-> parsed.rawQuery], nodes |-> Undefined,
     edges |-> Undefined, action |-> Undefined]

\* a generator that remembers it has shown the help text and shortens it afterwards
generateUnknownResponseOnce(parsed) ==
    [content |-> [kind |-> IF call.op = "generateResponse" /\ call.arg.intent = "unknown"
                           THEN "helpShort" ELSE "help"],
     nodes |-> Undefined, edges |-> Undefined, action |-> Undefined]

\* generateUnknownResponse(parsed)
generateUnknownResponse(parsed) ==
    [content |-> [kind |-> "help"], nodes |-> Undefined, edges |-> Undefined,
     action |-> Undefined]

\* parsed.entities.find(e => e.type === type)
FindEntity(parsed, type) ==
    LET isIt(e) == e.type = type
        found == SelectSeq(parsed.entities, isIt)
    IN IF found = <<>> THEN Undefined ELSE Head(found)

\* a response that is content alone
ContentOnly(content) ==
    [content |-> content, nodes |-> Undefined, edges |-> Undefined, action |-> Undefined]

\* a payload that leaves the edges of the chain out
WithChainNodesOnly(content, chain) ==
    [content |-> content, nodes |-> Arr(chain.nodes), edges |-> Arr(<<>>),
     action |-> Str("highlight")]

\* { content, nodes: Array.from(chain.nodes), edges: Array.from(chain.edges),
\*   action: 'highlight' }
WithChain(content, chain) ==
    [content |-> content, nodes |-> Arr(chain.nodes), edges |-> Arr(chain.edges),
     action |-> Str("highlight")]

\* resultNodes.map(n => n.id)
IdsOf(s) == [i \in 1..Len(s) |-> s[i].id]

\* parseInt(levelEntity.value), for the values parseQuery gives a level entity
parseInt(v) ==
    CASE v = "1" -> Num(1)
      [] v = "2" -> Num(2)

\* the condition generateQueryNodesResponse builds from the entities
queryNodesCondition(parsed) ==
    LET statusEntity == FindEntity(parsed, "status")
        modelEntity == FindEntity(parsed, "model_type")
        levelEntity == FindEntity(parsed, "level")
        statusValue == IF statusEntity = Undefined THEN "" ELSE statusEntity.value
        modelValue == IF modelEntity = Undefined THEN "" ELSE modelEntity.value
    IN MkCondition(Arr(<<"kpi">>),
                   IF statusValue = "unachieved" THEN Bool(FALSE)
                   ELSE IF statusValue = "achieved" THEN Bool(TRUE) ELSE Undefined,
                   Undefined,
                   IF levelEntity # Undefined THEN parseInt(levelEntity.value) ELSE Undefined,
                   IF modelValue = "null" THEN Bool(FALSE) ELSE Undefined,
                   Undefined)

\* an empty-result message that does not look at the condition
getPlainEmptyResultMessage(condition) == [kind |-> "noneFound"]

\* getEmptyResultMessage(condition)
getEmptyResultMessage(condition) ==
    IF condition.achieved = Bool(FALSE) THEN [kind |-> "allAchieved"]
    ELSE IF condition.hasModel = Bool(FALSE) THEN [kind |-> "allHaveModel"]
    ELSE [kind |-> "noneFound"]

\* generateNodeListHeader(condition, count)
generateNodeListHeader(condition, count) ==
    IF condition.achieved = Bool(FALSE) THEN [kind |-> "unachievedList", count |-> count]
    ELSE IF condition.hasModel = Bool(FALSE) THEN [kind |-> "noModelList", count |-> count]
    ELSE IF Truthy(condition.level)
         THEN [kind |-> "levelList", count |-> count, level |-> condition.level]
    ELSE [kind |-> "nodeList", count |-> count]

\* the lines written for a node: label, level || 1, achievementRate || 0, the mark of
\* metrics?.achieved, modelType || 'none', description
NodeLine(node) ==
    [label |-> node.label,
     level |-> OrElse(node.level, Num(1)),
     rate |-> OrElse(MetricsRate(node), Num(0)),
     achieved |-> Truthy(MetricsAchieved(node)),
     model |-> OrElse(MetricsModelType(node), Str("none")),
     description |-> node.description]

\* s.length > n ? s.length - n : nothing
MoreThan(s, n) == IF Len(s) > n THEN Len(s) - n ELSE 0

\* generateQueryNodesResponse(parsed)
generateQueryNodesResponse(ens, ees, gns, parsed) ==
    LET condition == queryNodesCondition(parsed)
        resultNodes == queryNodes(ens, condition)
    IN IF Len(resultNodes) = 0
       THEN ContentOnly(getEmptyResultMessage(condition))
       ELSE LET chain == traceChain(ens, ees, IdsOf(resultNodes))
                shown == Slice(resultNodes, 10)
            IN WithChain([kind |-> "queryNodes",
                          header |-> generateNodeListHeader(condition, Len(resultNodes)),
                          lines |-> [i \in 1..Len(shown) |-> NodeLine(shown[i])],
                          more |-> MoreThan(resultNodes, 10),
                          chainSize |-> Len(chain.nodes)],
                         chain)

\* generateBottleneckAnalysis()
generateBottleneckAnalysis(ens, ees) ==
    LET unachievedKPIs ==
            queryNodes(ens, MkCondition(Arr(<<"kpi">>), Bool(FALSE), Undefined, Undefined,
                                        Undefined, Undefined))
        keyed == [i \in 1..Len(unachievedKPIs) |->
                    [key |-> Len(traceDependencies(ees, unachievedKPIs[i].id).nodes),
                     item |-> unachievedKPIs[i]]]
        kpiWithImpact == SortByKeyDesc(keyed)
    IN IF Len(kpiWithImpact) = 0
       THEN ContentOnly([kind |-> "noBottleneck"])
       ELSE LET topBottlenecks == Slice(kpiWithImpact, 3)
                allIds == [i \in 1..Len(topBottlenecks) |-> topBottlenecks[i].item.id]
            IN WithChain([kind |-> "bottlenecks",
                          count |-> Len(unachievedKPIs),
                          lines |-> [i \in 1..Len(topBottlenecks) |->
                                        [line |-> NodeLine(topBottlenecks[i].item),
                                         impactSize |-> topBottlenecks[i].key]]],
                         traceChain(ens, ees, allIds))

\* generateVerificationGapAnalysis()
generateVerificationGapAnalysis(ens, ees) ==
    LET kpiNodes == queryNodes(ens, KpiCondition)
        noVerify(kpi) == ~HasVerify(ens, ees, kpi.id)
        kpisWithoutVerify == SelectSeq(kpiNodes, noVerify)
    IN IF Len(kpisWithoutVerify) = 0
       THEN ContentOnly([kind |-> "allVerified"])
       ELSE LET shown == Slice(kpisWithoutVerify, 8)
            IN WithChain([kind |-> "verificationGap",
                          count |-> Len(kpisWithoutVerify),
                          lines |-> [i \in 1..Len(shown) |-> NodeLine(shown[i])],
                          more |-> MoreThan(kpisWithoutVerify, 8)],
                         traceChain(ens, ees, IdsOf(kpisWithoutVerify)))

\* generateComprehensiveDiagnosis()
generateComprehensiveDiagnosis(ens, ees) ==
    LET kpiNodes == queryNodes(ens, KpiCondition)
        stats == calculateStats(ens, Arr(kpiNodes))
        unachievedCount == stats.byStatus.unachieved
        noModelCount == stats.byStatus.withoutModel
        issues == (IF unachievedCount > 0
                   THEN <<[issue |-> "unachieved", count |-> unachievedCount]>> ELSE <<>>)
                  \o (IF noModelCount > 0
                      THEN <<[issue |-> "noModel", count |-> noModelCount]>> ELSE <<>>)
    IN IF Len(issues) = 0
       THEN ContentOnly([kind |-> "noIssues"])
       ELSE ContentOnly([kind |-> "diagnosis", issues |-> issues])

BottleneckWords == {<<"u4f18", "u5148">>, <<"u5173", "u6ce8">>, <<"u74f6", "u9888">>}
VerificationGapWords == {<<"u9a8c", "u8bc1">>, <<"u7f3a", "u53e3">>}

\* generateFindIssuesResponse(parsed)
generateFindIssuesResponse(ens, ees, gns, parsed) ==
    LET query == toLowerCase(parsed.rawQuery)
    IN IF TestAny(BottleneckWords, query) THEN generateBottleneckAnalysis(ens, ees)
       ELSE IF TestAny(VerificationGapWords, query)
            THEN generateVerificationGapAnalysis(ens, ees)
       ELSE generateComprehensiveDiagnosis(ens, ees)

\* generateNodeSuggestion(nodeId)
generateNodeSuggestion(ens, ees, gns, nodeId) ==
    LET node == FindNode(gns, nodeId)
    IN IF node = Undefined
       THEN ContentOnly([kind |-> "nodeNotFound", nodeId |-> nodeId])
       ELSE IF node.category # "kpi"
       THEN ContentOnly([kind |-> "kpiOnly"])
       ELSE LET connectedDesign == OutgoingOfCategory(ens, ees, nodeId, "design")
                suggestions ==
                    (IF ~Truthy(MetricsAchieved(node))
                     THEN <<[s |-> "checkDesign", rate |-> OrElse(MetricsRate(node), Num(0))]>>
                     ELSE <<>>)
                    \o (IF ~Truthy(MetricsModelType(node)) THEN <<[s |-> "addModel"]>>
                        ELSE <<>>)
                    \o (IF Len(connectedDesign) > 0
                        THEN <<[s |-> "watchDesign",
                                labels |-> [i \in 1..Len(connectedDesign) |->
                                               connectedDesign[i].label]]>>
                        ELSE <<>>)
                    \o (IF ~HasVerify(ens, ees, nodeId) THEN <<[s |-> "addVerify"]>>
                        ELSE <<>>)
            IN WithChain([kind |-> "suggestion",
                          label |-> node.label,
                          description |-> node.description,
                          suggestions |-> IF Len(suggestions) = 0 THEN <<[s |-> "good"]>>
                                          ELSE suggestions],
                         traceChain(ens, ees, <<nodeId>>))

\* generateSuggestionResponse(parsed)
generateSuggestionResponse(ens, ees, gns, parsed) ==
    LET nodeIdEntity == FindNodeIdEntity(parsed)
    IN IF nodeIdEntity # Undefined
       THEN generateNodeSuggestion(ens, ees, gns, nodeIdEntity.value)
       ELSE ContentOnly([kind |-> "suggestMenu"])

\* generateCompareResponse(parsed)
generateCompareResponse(ens, ees, gns, parsed) ==
    LET isId(e) == e.type = "node_id"
        idEntities == SelectSeq(parsed.entities, isId)
    IN IF Len(idEntities) < 2
       THEN ContentOnly([kind |-> "askTwoNodeIds"])
       ELSE LET node1Id == idEntities[1].value
                node2Id == idEntities[2].value
                comparison == compareKPIs(ens, ees, gns, node1Id, node2Id)
            IN IF comparison = Null
               THEN ContentOnly([kind |-> "cannotCompare"])
               ELSE WithChain([kind |-> "comparison", comparison |-> comparison],
                              traceChain(ens, ees, <<node1Id, node2Id>>))

RECURSIVE pairIds(_)
\* topCorrelations.flatMap(c => [c.kpi1.id, c.kpi2.id])
pairIds(cs) ==
    IF cs = <<>> THEN <<>>
    ELSE <<Head(cs).kpi1.id, Head(cs).kpi2.id>> \o pairIds(Tail(cs))

\* generateCorrelationResponse(parsed)
generateCorrelationResponse(ens, ees, gns, parsed) ==
    LET correlations == analyzeCorrelations(ens, ees)
    IN IF Len(correlations) = 0
       THEN ContentOnly([kind |-> "noCorrelation"])
       ELSE LET topCorrelations == Slice(correlations, 5)
            IN WithChain([kind |-> "correlations",
                          count |-> Len(correlations),
                          lines |-> topCorrelations],
                         traceChain(ens, ees, pairIds(topCorrelations)))

\* generatePriorityResponse(parsed)
generatePriorityResponse(ens, ees, gns, parsed) ==
    LET priorities == prioritizeNodes(ens, ees)
    IN IF Len(priorities) = 0
       THEN ContentOnly([kind |-> "nothingToPrioritize"])
       ELSE LET topPriorities == Slice(priorities, 5)
                topIds == [i \in 1..Len(topPriorities) |-> topPriorities[i].nodeId]
            IN WithChain([kind |-> "priorities",
                          count |-> Len(priorities),
                          lines |-> [i \in 1..Len(topPriorities) |->
                                        [nodeName |-> topPriorities[i].nodeName,
                                         priorityScore |-> topPriorities[i].priorityScore,
                                         reasons |-> topPriorities[i].reasons]]],
                         traceChain(ens, ees, topIds))

\* generateResponse(parsed), for the intents whose handlers are above
generateResponse(ens, ees, gns, parsed) ==
    CASE parsed.intent = "query_nodes" -> generateQueryNodesResponse(ens, ees, gns, parsed)
      [] parsed.intent = "trace_chain" -> generateTraceChainResponse(ens, ees, gns, parsed)
      [] parsed.intent = "analyze_impact" -> generateImpactAnalysisResponse(ens, ees, gns, parsed)
      [] parsed.intent = "find_issues" -> generateFindIssuesResponse(ens, ees, gns, parsed)
      [] parsed.intent = "suggest" -> generateSuggestionResponse(ens, ees, gns, parsed)
      [] parsed.intent = "compare" -> generateCompareResponse(ens, ees, gns, parsed)
      [] parsed.intent = "correlation" -> generateCorrelationResponse(ens, ees, gns, parsed)
      [] parsed.intent = "prioritize" -> generatePriorityResponse(ens, ees, gns, parsed)
      [] parsed.intent = "unknown" -> generateUnknownResponse(parsed)

-----------------------------------------------------------------------------
(* The response generator as its callers drive it: a generator constructed on    *)
(* the arrays the engine holds, asked for the response to a parsed query.         *)

MaxRespEdges == 2

\* KPIMetrics with achievementRate
MkRatedMetrics(achieved, modelType, achievementRate) ==
    [t |-> "object", achieved |-> Bool(achieved), modelType |-> modelType,
     achievementRate |-> Num(achievementRate)]

\* a node with all the fields the handlers read
MkFullNode(id, category, level, metrics, label, description) ==
    [id |-> id, category |-> category, level |-> level, metrics |-> metrics,
     label |-> label, description |-> description]

RespIdNVH == <<"K", "P", "I", "_", "N", "V", "H">>
RespIdUX == <<"K", "P", "I", "_", "U", "X">>
RespIdGear == <<"D", "_", "G", "E", "A", "R">>
RespIdTest == <<"V", "_", "T", "E", "S", "T", "1">>
\* an id that is the id of no node
RespIdCost == <<"K", "P", "I", "_", "C", "O", "S", "T">>

\* the kpi node KPI_NVH: achieved with a model, unachieved without one, or without
\* metrics
RespNVHNodes ==
    {MkFullNode(RespIdNVH, "kpi", Num(2), MkRatedMetrics(TRUE, Str("sysml"), 100), "NVH", "noise"),
     MkFullNode(RespIdNVH, "kpi", Num(1), MkRatedMetrics(FALSE, Undefined, 60), "NVH", "noise"),
     MkFullNode(RespIdNVH, "kpi", Undefined, Undefined, "NVH", "noise")}

\* the kpi node KPI_UX, when the snapshot has it
RespUXNodes ==
    {MkFullNode(RespIdUX, "kpi", Num(1), MkRatedMetrics(TRUE, Str("sysml"), 100), "UX", "experience"),
     MkFullNode(RespIdUX, "kpi", Num(2), MkRatedMetrics(FALSE, Undefined, 80), "UX", "experience")}

RespGearNode == MkFullNode(RespIdGear, "design", Undefined, Undefined, "Gear", "ratio")
RespTestNode == MkFullNode(RespIdTest, "verify", Undefined, Undefined, "Test", "bench")

\* the node arrays of the snapshots
RespNodeLists ==
    {<<k1>> \o ux \o d \o v :
        k1 \in RespNVHNodes,
        ux \in {<<>>} \cup {<<k2>> : k2 \in RespUXNodes},
        d \in {<<>>, <<RespGearNode>>},
        v \in {<<>>, <<RespTestNode>>}}

\* the (source, target) of the edges the host may add; the id of an edge is its
\* position here
RespEdgePairs ==
    <<<<RespIdNVH, RespIdGear>>, <<RespIdUX, RespIdGear>>, <<RespIdNVH, RespIdTest>>,
      <<RespIdUX, RespIdTest>>, <<RespIdGear, RespIdTest>>, <<RespIdNVH, RespIdUX>>>>

\* the queries put to the generator
ResponseQueries ==
    {<<"u663e", "u793a", "u672a", "u8fbe", "u6210", "u7684", "u6307", "u6807">>,
     <<"u663e", "u793a", "u6ca1", "u6709", "u6a21", "u578b", "u7684", "u4e00", "u7ea7", "u6307", "u6807">>,
     <<"u663e", "u793a", "u6307", "u6807">>,
     <<"u663e", "u793a", "u5df2", "u8fbe", "u6210", "u7684", "u4e8c", "u7ea7", "u6307", "u6807">>,
     <<"K", "P", "I", "_", "N", "V", "H", " ", "u7684", "u94fe", "u8def">>,
     <<"u94fe", "u8def">>,
     <<"K", "P", "I", "_", "C", "O", "S", "T", " ", "u7684", "u94fe", "u8def">>,
     <<"K", "P", "I", "_", "N", "V", "H", " ", "u7684", "u5f71", "u54cd">>,
     <<"D", "_", "G", "E", "A", "R", " ", "u7684", "u5f71", "u54cd">>,
     <<"u5f71", "u54cd">>,
     <<"K", "P", "I", "_", "C", "O", "S", "T", " ", "u7684", "u5f71", "u54cd">>,
     <<"u8bc6", "u522b", "u74f6", "u9888">>,
     <<"u54ea", "u4e9b", "u6307", "u6807", "u7f3a", "u5c11", "u9a8c", "u8bc1">>,
     <<"u6709", "u4ec0", "u4e48", "u95ee", "u9898">>,
     <<"K", "P", "I", "_", "U", "X", " ", "u5efa", "u8bae">>,
     <<"u5efa", "u8bae">>,
     <<"D", "_", "G", "E", "A", "R", " ", "u5efa", "u8bae">>,
     <<"K", "P", "I", "_", "C", "O", "S", "T", " ", "u5efa", "u8bae">>,
     <<"K", "P", "I", "_", "U", "X", " ", "K", "P", "I", "_", "N", "V", "H", " ", "u5bf9", "u6bd4">>,
     <<"K", "P", "I", "_", "U", "X", " ", "u5bf9", "u6bd4">>,
     <<"K", "P", "I", "_", "U", "X", " ", "D", "_", "G", "E", "A", "R", " ", "u5bf9", "u6bd4">>,
     <<"K", "P", "I", "_", "U", "X", " ", "K", "P", "I", "_", "C", "O", "S", "T", " ", "u5bf9", "u6bd4">>,
     <<"u76f8", "u5173">>,
     <<"u4f18", "u5148", "u7ea7">>,
     <<"u7684">>,
     <<"u4f60", "u597d", " ", "K", "P", "I", "_", "N", "V", "H">>,
     <<>>}

\* what parseQuery makes of them
ParsedResponseQueries == {parseQuery(q) : q \in ResponseQueries}

\* new CopilotEngine(nodes, edges), new ResponseGenerator(engine, nodes, edges)
InitResponse ==
    /\ nodes \in RespNodeLists
    /\ edges = <<>>
    /\ call = NoCall
    /\ run = Idle
    /\ PanelUnused

\* the host hands over an array with one more edge
RespHostAddsEdge ==
    /\ call = NoCall
    /\ Len(edges) < MaxRespEdges
    /\ \E k \in 1..Len(RespEdgePairs) :
          /\ \A i \in 1..Len(edges) : edges[i].id < k
          /\ updateData(nodes, Append(edges, MkEdge(k, RespEdgePairs[k][1],
                                                    RespEdgePairs[k][2])))
    /\ UNCHANGED <<call, runVars, panelVars, appVars>>

\* generator.generateResponse(parseQuery(query))
CallGenerateResponse ==
    /\ call = NoCall
    /\ \E parsed \in ParsedResponseQueries :
          call' = [op |-> "generateResponse", arg |-> parsed,
                   res |-> generateResponse(nodes, edges, nodes, parsed)]
    /\ UNCHANGED <<engineVars, runVars, panelVars, appVars>>

NextResponse ==
    \/ RespHostAddsEdge
    \/ CallGenerateResponse
    \/ Return

SpecResponse == InitResponse /\ [][NextResponse]_vars

-----------------------------------------------------------------------------
(* One generator instance answering query after query.  Its fields (engine,      *)
(* nodes, edges, analyzer) are assigned in the constructor only; the call record  *)
(* keeps the call that came before.                                               *)

\* queries of several intents, asked in any order
StatelessQueries ==
    {<<"u663e", "u793a", "u6307", "u6807">>,
     <<"K", "P", "I", "_", "N", "V", "H", " ", "u7684", "u94fe", "u8def">>,
     <<"D", "_", "G", "E", "A", "R", " ", "u7684", "u5f71", "u54cd">>,
     <<"u6709", "u4ec0", "u4e48", "u95ee", "u9898">>,
     <<"u76f8", "u5173">>,
     <<"u4f18", "u5148", "u7ea7">>,
     <<"u7684">>}

ParsedStatelessQueries == {parseQuery(q) : q \in StatelessQueries}

\* generator.generateResponse(parsed) as the first call on the snapshot
CallGenerateResponseFirst ==
    /\ call = NoCall
    /\ \E parsed \in ParsedStatelessQueries :
          call' = [op |-> "generateResponse", arg |-> parsed,
                   res |-> generateResponse(nodes, edges, nodes, parsed)]
    /\ UNCHANGED <<engineVars, runVars, panelVars, appVars>>

\* generator.generateResponse(parsed) on the instance that answered the call before
CallGenerateResponseAfter ==
    /\ call.op = "generateResponse"
    /\ "after" \notin DOMAIN call
    /\ \E parsed \in ParsedStatelessQueries :
          call' = [op |-> "generateResponse", arg |-> parsed,
                   res |-> generateResponse(nodes, edges, nodes, parsed),
                   after |-> [arg |-> call.arg, res |-> call.res]]
    /\ UNCHANGED <<engineVars, runVars, panelVars, appVars>>

NextStateless ==
    \/ RespHostAddsEdge
    \/ CallGenerateResponseFirst
    \/ CallGenerateResponseAfter
    \/ Return

SpecStateless == InitResponse /\ [][NextStateless]_vars

-----------------------------------------------------------------------------
(* The analyzer's correlation analysis as its callers drive it: an analyzer      *)
(* constructed on each snapshot of a graph of three indicators, two design       *)
(* parameters and one verification.                                              *)

MaxCorrEdges == 5

CorrIdMass == <<"K", "P", "I", "_", "M", "A", "S", "S">>
CorrIdMotor == <<"D", "_", "M", "O", "T", "O", "R">>

CorrNVHNode ==
    MkFullNode(RespIdNVH, "kpi", Num(1), MkRatedMetrics(FALSE, Undefined, 60), "NVH", "noise")
CorrUXNode ==
    MkFullNode(RespIdUX, "kpi", Num(1), MkRatedMetrics(TRUE, Str("sysml"), 100), "UX", "experience")
CorrMassNode ==
    MkFullNode(CorrIdMass, "kpi", Num(2), MkRatedMetrics(FALSE, Undefined, 80), "Mass", "weight")
CorrMotorNode == MkFullNode(CorrIdMotor, "design", Undefined, Undefined, "Motor", "torque")

\* the node arrays of the snapshots
CorrNodeLists ==
    {<<CorrNVHNode, CorrUXNode>> \o k3 \o <<RespGearNode>> \o d2 \o <<RespTestNode>> :
        k3 \in {<<>>, <<CorrMassNode>>},
        d2 \in {<<>>, <<CorrMotorNode>>}}

\* the (source, target) of the edges the host may add; the id of an edge is its
\* position here
CorrEdgePairs ==
    <<<<RespIdNVH, RespIdGear>>, <<RespIdUX, RespIdGear>>, <<RespIdUX, CorrIdMotor>>,
      <<CorrIdMass, RespIdGear>>, <<CorrIdMass, CorrIdMotor>>, <<RespIdNVH, CorrIdMotor>>,
      <<RespIdNVH, RespIdTest>>, <<RespIdUX, RespIdTest>>,
      <<RespIdTest, RespIdNVH>>, <<RespIdTest, RespIdUX>>,
      <<RespIdGear, RespIdNVH>>, <<RespIdGear, RespIdTest>>>>

\* new CopilotEngine(nodes, edges), new AdvancedAnalyzer(engine, nodes, edges)
InitCorrelation ==
    /\ nodes \in CorrNodeLists
    /\ edges = <<>>
    /\ call = NoCall
    /\ run = Idle
    /\ PanelUnused

\* the host hands over an array with one more edge
CorrHostAddsEdge ==
    /\ call = NoCall
    /\ Len(edges) < MaxCorrEdges
    /\ \E k \in 1..Len(CorrEdgePairs) :
          /\ \A i \in 1..Len(edges) : edges[i].id < k
          /\ updateData(nodes, Append(edges, MkEdge(k, CorrEdgePairs[k][1],
                                                    CorrEdgePairs[k][2])))
    /\ UNCHANGED <<call, runVars, panelVars, appVars>>

\* analyzer.analyzeCorrelations()
CallAnalyzeCorrelations ==
    /\ call = NoCall
    /\ call' = [op |-> "analyzeCorrelations", arg |-> Undefined,
                res |-> analyzeCorrelations(nodes, edges)]
    /\ UNCHANGED <<engineVars, runVars, panelVars, appVars>>

NextCorrelation ==
    \/ CorrHostAddsEdge
    \/ CallAnalyzeCorrelations
    \/ Return

SpecCorrelation == InitCorrelation /\ [][NextCorrelation]_vars

-----------------------------------------------------------------------------
(* AdvancedAnalyzer: the gap analysis and the level health.  The snapshots have   *)
(* up to MaxAnalysisKpis indicators, and one has twenty, eleven of them with a    *)
(* model.                                                                         *)

MaxAnalysisKpis == 3
MaxAnalysisEdges == 2

DecimalDigits == <<"0", "1", "2", "3", "4", "5", "6", "7", "8", "9">>

\* the id of the i-th indicator: KPI_1, KPI_2, ...
AnalysisKpiId(i) ==
    <<"K", "P", "I", "_">>
    \o (IF i < 10 THEN <<DecimalDigits[i + 1]>>
        ELSE <<DecimalDigits[(i \div 10) + 1], DecimalDigits[(i % 10) + 1]>>)

\* the i-th indicator
AnalysisKpi(i, level, achieved, hasModel) ==
    MkFullNode(AnalysisKpiId(i), "kpi", Num(level),
               MkRatedMetrics(achieved, IF hasModel THEN Str("simulink") ELSE Undefined,
                              IF achieved THEN 100 ELSE 60),
               AnalysisKpiId(i), "indicator")

\* the snapshot with a model coverage of 55%: twenty achieved indicators of level
\* 1, the first eleven of them with a model, and the verification V_TEST1
GapLargeNodes ==
    [i \in 1..20 |-> AnalysisKpi(i, 1, TRUE, i <= 11)] \o <<RespTestNode>>

\* the most indicators a snapshot has
MaxTotalKpis ==
    IF MaxAnalysisKpis > Len(GapLargeNodes) - 1 THEN MaxAnalysisKpis
    ELSE Len(GapLargeNodes) - 1

\* the arithmetic of the analyzer on the counts it meets, worked out once:
\* (count / total) * 100 for count <= total
PercentTable ==
    UNION {{[count |-> c, total |-> t, rate |-> DblPercent(c, t)] : c \in 0..t} :
              t \in 1..MaxTotalKpis}

\* (count / total) * 100
Percent(count, total) ==
    (CHOOSE r \in PercentTable : r.count = count /\ r.total = total).rate

Dbl60 == DblOfNat(60)
Dbl70 == DblOfNat(70)
Dbl80 == DblOfNat(80)
Dbl90 == DblOfNat(90)

\* a gap priority with the first threshold at 50
gapPriorityFrom50(coverageRate) ==
    IF DblLess(coverageRate, DblOfNat(50)) THEN "high"
    ELSE IF DblLess(coverageRate, Dbl80) THEN "medium" ELSE "low"

\* coverageRate < 60 ? 'high' : coverageRate < 80 ? 'medium' : 'low'
gapPriority(coverageRate) ==
    IF DblLess(coverageRate, Dbl60) THEN "high"
    ELSE IF DblLess(coverageRate, Dbl80) THEN "medium" ELSE "low"

\* analyzeModelGap(): GapAnalysis | null
analyzeModelGap(ns, es) ==
    LET kpis == queryNodes(ns, KpiCondition)
        hasType(n) == Truthy(MetricsModelType(n))
        hasNone(n) == ~Truthy(MetricsModelType(n))
        withModel == SelectSeq(kpis, hasType)
        withoutModel == SelectSeq(kpis, hasNone)
    IN IF Len(withoutModel) = 0 THEN Null
       ELSE LET coverageRate == Percent(Len(withModel), Len(kpis))
                atLevel1(n) == n.level = Num(1)
                atLevel2(n) == n.level = Num(2)
                l1Missing == Count(withoutModel, atLevel1)
                l2Missing == Count(withoutModel, atLevel2)
            IN [category |-> "modelCoverage",
                identified |-> IdsOf(withModel),
                missing |-> IdsOf(withoutModel),
                coverageRate |-> coverageRate,
                priority |-> gapPriority(coverageRate),
                recommendations |->
                    (IF l1Missing > 0 THEN <<[kind |-> "level1First", count |-> l1Missing]>>
                     ELSE <<>>)
                    \o (IF l2Missing > 0 THEN <<[kind |-> "level2", count |-> l2Missing]>>
                        ELSE <<>>)
                    \o <<[kind |-> "pickModelType"]>>]

\* analyzeVerificationGap(): GapAnalysis | null
analyzeVerificationGap(ns, es) ==
    LET kpis == queryNodes(ns, KpiCondition)
        verified(kpi) == HasVerify(ns, es, kpi.id)
        unverified(kpi) == ~HasVerify(ns, es, kpi.id)
        withVerify == IdsOf(SelectSeq(kpis, verified))
        withoutVerify == IdsOf(SelectSeq(kpis, unverified))
    IN IF Len(withoutVerify) = 0 THEN Null
       ELSE LET coverageRate == Percent(Len(withVerify), Len(kpis))
            IN [category |-> "verificationCoverage",
                identified |-> withVerify,
                missing |-> withoutVerify,
                coverageRate |-> coverageRate,
                priority |-> gapPriority(coverageRate),
                recommendations |-> <<[kind |-> "addVerification",
                                       count |-> Len(withoutVerify)],
                                      [kind |-> "combineSimulationAndTest"],
                                      [kind |-> "unachievedFirst"]>>]

\* analyzeAchievementGap(): GapAnalysis | null
analyzeAchievementGap(ns, es) ==
    LET kpis == queryNodes(ns, KpiCondition)
        isAchieved(n) == Truthy(MetricsAchieved(n))
        isUnachieved(n) == ~Truthy(MetricsAchieved(n))
        achieved == SelectSeq(kpis, isAchieved)
        unachieved == SelectSeq(kpis, isUnachieved)
    IN IF Len(unachieved) = 0 THEN Null
       ELSE LET coverageRate == Percent(Len(achieved), Len(kpis))
                keyed == [k \in 1..Len(unachieved) |->
                            [key |-> Len(traceDependencies(es, unachieved[k].id).nodes),
                             item |-> unachieved[k]]]
                criticalUnachieved == Slice(Items(SortByKeyDesc(keyed)), 3)
            IN [category |-> "achievement",
                identified |-> IdsOf(achieved),
                missing |-> IdsOf(unachieved),
                coverageRate |-> coverageRate,
                priority |-> gapPriority(coverageRate),
                recommendations |->
                    (IF Len(criticalUnachieved) > 0
                     THEN <<[kind |-> "solveFirst",
                             labels |-> [k \in 1..Len(criticalUnachieved) |->
                                            criticalUnachieved[k].label]]>>
                     ELSE <<>>)
                    \o <<[kind |-> "tuneDesignParameters"], [kind |-> "addModelAndVerification"]>>]

\* analyzeGaps(): GapAnalysis[]
analyzeGaps(ns, es) ==
    LET modelGap == analyzeModelGap(ns, es)
        verifyGap == analyzeVerificationGap(ns, es)
        achievementGap == analyzeAchievementGap(ns, es)
    IN (IF modelGap # Null THEN <<modelGap>> ELSE <<>>)
       \o (IF verifyGap # Null THEN <<verifyGap>> ELSE <<>>)
       \o (IF achievementGap # Null THEN <<achievementGap>> ELSE <<>>)

\* achievementRate * 0.5 + modelCoverage * 0.3 + verificationCoverage * 0.2
healthScoreOf(achievementRate, modelCoverage, verificationCoverage) ==
    DblAdd(DblAdd(DblMul(achievementRate, DblHalf), DblMul(modelCoverage, DblThreeTenths)),
           DblMul(verificationCoverage, DblTwoTenths))

\* the health scores of the counts the analyzer meets, worked out once
HealthScoreTable ==
    UNION {{[achievedKPIs |-> a, withModel |-> m, withVerify |-> v, totalKPIs |-> t,
             healthScore |-> healthScoreOf(Percent(a, t), Percent(m, t), Percent(v, t))] :
               a \in 0..t, m \in 0..t, v \in 0..t} :
              t \in 1..MaxAnalysisKpis}

\* healthScore >= 90 ? 'A' : healthScore >= 80 ? 'B' : healthScore >= 70 ? 'C' :
\* healthScore >= 60 ? 'D' : 'F'
gradeOf(healthScore) ==
    IF DblAtLeast(healthScore, Dbl90) THEN "A"
    ELSE IF DblAtLeast(healthScore, Dbl80) THEN "B"
    ELSE IF DblAtLeast(healthScore, Dbl70) THEN "C"
    ELSE IF DblAtLeast(healthScore, Dbl60) THEN "D" ELSE "F"

\* the body of the loop of analyzeLevelHealth for one level: the list of the entry
\* pushed, empty when the level has no KPI
levelHealthOf(ns, es, level) ==
    LET kpis == queryNodes(ns, MkCondition(Arr(<<"kpi">>), Undefined, Undefined, Num(level),
                                           Undefined, Undefined))
        totalKPIs == Len(kpis)
    IN IF totalKPIs = 0 THEN <<>>
       ELSE LET isAchieved(n) == Truthy(MetricsAchieved(n))
                hasType(n) == Truthy(MetricsModelType(n))
                verified(kpi) == HasVerify(ns, es, kpi.id)
                achievedKPIs == Count(kpis, isAchieved)
                withModel == Count(kpis, hasType)
                withVerify == Count(kpis, verified)
                healthScore ==
                    (CHOOSE r \in HealthScoreTable :
                        /\ r.achievedKPIs = achievedKPIs /\ r.withModel = withModel
                        /\ r.withVerify = withVerify /\ r.totalKPIs = totalKPIs).healthScore
            IN <<[level |-> level,
                  totalKPIs |-> totalKPIs,
                  achievedKPIs |-> achievedKPIs,
                  achievementRate |-> Percent(achievedKPIs, totalKPIs),
                  withModel |-> withModel,
                  modelCoverage |-> Percent(withModel, totalKPIs),
                  withVerify |-> withVerify,
                  verificationCoverage |-> Percent(withVerify, totalKPIs),
                  healthScore |-> healthScore,
                  grade |-> gradeOf(healthScore)]>>

\* analyzeLevelHealth(): for (const level of [1, 2]) ...
analyzeLevelHealth(ns, es) == levelHealthOf(ns, es, 1) \o levelHealthOf(ns, es, 2)

-----------------------------------------------------------------------------
(* The gap analysis and the level health as their callers drive them: an analyzer *)
(* constructed on each snapshot of a graph of indicators and one verification.    *)

\* what an indicator may be: its level, whether it is achieved, whether it has a model
KpiVariants ==
    <<[level |-> 1, achieved |-> TRUE, hasModel |-> TRUE],
      [level |-> 1, achieved |-> TRUE, hasModel |-> FALSE],
      [level |-> 1, achieved |-> FALSE, hasModel |-> TRUE],
      [level |-> 1, achieved |-> FALSE, hasModel |-> FALSE],
      [level |-> 2, achieved |-> TRUE, hasModel |-> TRUE],
      [level |-> 2, achieved |-> TRUE, hasModel |-> FALSE],
      [level |-> 2, achieved |-> FALSE, hasModel |-> TRUE],
      [level |-> 2, achieved |-> FALSE, hasModel |-> FALSE]>>

\* the node arrays of the snapshots: one to MaxAnalysisKpis indicators, grouped by
\* what they are, and the verification V_TEST1
AnalysisNodeLists ==
    UNION {{[i \in 1..n |-> AnalysisKpi(i, KpiVariants[f[i]].level, KpiVariants[f[i]].achieved,
                                        KpiVariants[f[i]].hasModel)] \o <<RespTestNode>> :
               f \in {g \in [1..n -> 1..Len(KpiVariants)] :
                         \A i \in 1..(n - 1) : g[i] <= g[i + 1]}} :
              n \in 1..MaxAnalysisKpis}

\* the (source, target) of the edges the host may add; the id of an edge is its
\* position here
AnalysisEdgePairs ==
    [i \in 1..MaxAnalysisKpis |-> <<AnalysisKpiId(i), RespIdTest>>]
    \o <<<<RespIdTest, AnalysisKpiId(1)>>, <<AnalysisKpiId(1), AnalysisKpiId(2)>>>>

\* the host hands over an array with one more edge
AnalysisHostAddsEdge ==
    /\ call = NoCall
    /\ Len(edges) < MaxAnalysisEdges
    /\ \E k \in 1..Len(AnalysisEdgePairs) :
          /\ \A i \in 1..Len(edges) : edges[i].id < k
          /\ updateData(nodes, Append(edges, MkEdge(k, AnalysisEdgePairs[k][1],
                                                    AnalysisEdgePairs[k][2])))
    /\ UNCHANGED <<call, runVars, panelVars, appVars>>

\* new CopilotEngine(nodes, edges), new AdvancedAnalyzer(engine, nodes, edges)
InitGaps ==
    /\ nodes \in AnalysisNodeLists \cup {GapLargeNodes}
    /\ edges = <<>>
    /\ call = NoCall
    /\ run = Idle
    /\ PanelUnused

\* analyzer.analyzeGaps()
CallAnalyzeGaps ==
    /\ call = NoCall
    /\ call' = [op |-> "analyzeGaps", arg |-> Undefined, res |-> analyzeGaps(nodes, edges)]
    /\ UNCHANGED <<engineVars, runVars, panelVars, appVars>>

NextGaps ==
    \/ AnalysisHostAddsEdge
    \/ CallAnalyzeGaps
    \/ Return

SpecGaps == InitGaps /\ [][NextGaps]_vars

\* new CopilotEngine(nodes, edges), new AdvancedAnalyzer(engine, nodes, edges)
InitHealth ==
    /\ nodes \in AnalysisNodeLists
    /\ edges = <<>>
    /\ call = NoCall
    /\ run = Idle
    /\ PanelUnused

\* analyzer.analyzeLevelHealth()
CallAnalyzeLevelHealth ==
    /\ call = NoCall
    /\ call' = [op |-> "analyzeLevelHealth", arg |-> Undefined,
                res |-> analyzeLevelHealth(nodes, edges)]
    /\ UNCHANGED <<engineVars, runVars, panelVars, appVars>>

NextHealth ==
    \/ AnalysisHostAddsEdge
    \/ CallAnalyzeLevelHealth
    \/ Return

SpecHealth == InitHealth /\ [][NextHealth]_vars

-----------------------------------------------------------------------------
(* The analyzer's dependency analysis, one iteration of the loop of              *)
(* calculateCriticalPath at a time.  run holds the locals of the call: path and  *)
(* currentId while the loop runs, the returned value when it is over.            *)

MaxPathEdges == 2
MaxPath == 4

PathIdGoal == <<"G", "_", "S", "A", "F", "E">>

PathGoalNode == MkFullNode(PathIdGoal, "goal", Undefined, Undefined, "Safe", "goal")

\* the node array of the snapshot: two indicators before the goal, a design parameter
\* and a verification
PathNodes == <<CorrNVHNode, CorrUXNode, PathGoalNode, RespGearNode, RespTestNode>>

\* the (source, target) of the edges of the snapshots
PathEdgePairs ==
    <<<<RespIdNVH, RespIdUX>>, <<RespIdUX, RespIdNVH>>, <<PathIdGoal, RespIdNVH>>,
      <<PathIdGoal, RespIdUX>>, <<RespIdNVH, RespIdGear>>, <<RespIdNVH, RespIdTest>>>>

\* the edge arrays of the snapshots
PathEdgeLists ==
    {[i \in 1..Cardinality(S) |->
        LET k == CHOOSE k \in S : Cardinality({j \in S : j < k}) = i - 1
        IN MkEdge(k, PathEdgePairs[k][1], PathEdgePairs[k][2])] :
     S \in {T \in SUBSET (1..Len(PathEdgePairs)) : Cardinality(T) <= MaxPathEdges}}

\* getConnectedNodes(nodeId, direction).map(n => ({id, name, category}))
dependencyEntries(ns, es, nodeId, direction) ==
    LET connected == getConnectedNodes(ns, es, nodeId, direction)
    IN [i \in 1..Len(connected) |->
          [id |-> connected[i].id, name |-> connected[i].label,
           category |-> connected[i].category]]

\* getConnectedNodes(currentId, 'incoming').find(n => goal or kpi)
criticalParent(ns, es, currentId) ==
    LET isAbove(n) == n.category \in {"goal", "kpi"}
        found == SelectSeq(getConnectedNodes(ns, es, currentId, "incoming"), isAbove)
    IN IF found = <<>> THEN Undefined ELSE Head(found)

\* assessRisk(node, upstream, downstream)
assessRisk(node, upstream, downstream) ==
    LET isKpi == node.category = "kpi"
        unachieved == isKpi /\ ~Truthy(MetricsAchieved(node))
        noModel == isKpi /\ ~Truthy(MetricsModelType(node))
        noVerify == /\ node.category \in {"kpi", "design"}
                    /\ ~\E i \in 1..Len(downstream) : downstream[i].category = "verify"
        riskScore == (IF unachieved THEN 3 ELSE 0) + (IF noModel THEN 2 ELSE 0)
                       + (IF noVerify THEN 2 ELSE 0)
                       + (IF Len(upstream) > 5 THEN 1 ELSE 0)
                       + (IF Len(downstream) > 8 THEN 1 ELSE 0)
    IN [level |-> IF riskScore >= 5 THEN "high"
                  ELSE IF riskScore >= 3 THEN "medium" ELSE "low",
        factors |-> (IF unachieved THEN <<"unachieved">> ELSE <<>>)
                      \o (IF noModel THEN <<"noModel">> ELSE <<>>)
                      \o (IF noVerify THEN <<"noVerify">> ELSE <<>>)
                      \o (IF Len(upstream) > 5 THEN <<"manyUpstream">> ELSE <<>>)
                      \o (IF Len(downstream) > 8 THEN <<"manyDownstream">> ELSE <<>>)]

\* the value analyzeDependencies(nodeId) returns once the critical path is path
dependencyAnalysis(ns, es, nodeId, path) ==
    LET isIt(n) == n.id = nodeId
        node == Head(SelectSeq(ns, isIt))
        upstream == dependencyEntries(ns, es, nodeId, "incoming")
        downstream == dependencyEntries(ns, es, nodeId, "outgoing")
        risk == assessRisk(node, upstream, downstream)
    IN [nodeId |-> nodeId, nodeName |-> node.label,
        dependencies |-> [upstream |-> upstream, downstream |-> downstream],
        criticalPath |-> path, riskLevel |-> risk.level, riskFactors |-> risk.factors]

InitPath ==
    /\ nodes = PathNodes
    /\ edges \in PathEdgeLists
    /\ call = NoCall
    /\ run = Idle
    /\ PanelUnused

\* analyzeDependencies(nodeId) is called: null for an id of no node, else the loop of
\* calculateCriticalPath is entered with path = [nodeId]
DependenciesBegin ==
    /\ run.pc \in {"idle", "done"}
    /\ \E nodeId \in {n.id : n \in Range(PathNodes)} \cup {RespIdCost} :
          run' = IF HasNode(nodes, nodeId)
                 THEN [pc |-> "walking", nodeId |-> nodeId, path |-> <<nodeId>>,
                       currentId |-> nodeId]
                 ELSE [pc |-> "done", nodeId |-> nodeId, res |-> Null]
    /\ UNCHANGED <<engineVars, call, panelVars, appVars>>

\* one iteration of while (true), and the rest of analyzeDependencies after a break
PathStep ==
    /\ run.pc = "walking"
    /\ Len(run.path) < MaxPath
    /\ \E parent \in {criticalParent(nodes, edges, run.currentId)} :
          run' = IF parent = Undefined
                 THEN [pc |-> "done", nodeId |-> run.nodeId,
                       res |-> dependencyAnalysis(nodes, edges, run.nodeId, run.path)]
                 ELSE IF parent.category = "goal"
                 THEN [pc |-> "done", nodeId |-> run.nodeId,
                       res |-> dependencyAnalysis(nodes, edges, run.nodeId,
                                                  <<parent.id>> \o run.path)]
                 ELSE [run EXCEPT !.path = <<parent.id>> \o @, !.currentId = parent.id]
    /\ UNCHANGED <<engineVars, call, panelVars, appVars>>

NextPath ==
    \/ DependenciesBegin
    \/ PathStep

\* a call, once made, runs on: nothing else runs on the single thread
SpecCriticalPath == InitPath /\ [][NextPath]_vars /\ WF_vars(PathStep)

-----------------------------------------------------------------------------
(* ContextManager.  A Map is the sequence of its entries [key, value] in          *)
(* insertion order; the timestamp of a history entry is left out.                 *)

maxHistorySize == 10
maxRecentlyViewed == 20

\* Map.prototype.get(key) || 0
MapGetOrZero(map, key) ==
    LET isIt(e) == e.key = key
        found == SelectSeq(map, isIt)
    IN IF found = <<>> THEN 0 ELSE Head(found).value

\* Map.prototype.set(key, value): the entry of a key that is there keeps its place
MapSet(map, key, value) ==
    IF \E i \in 1..Len(map) : map[i].key = key
    THEN [i \in 1..Len(map) |-> IF map[i].key = key THEN [key |-> key, value |-> value]
                                ELSE map[i]]
    ELSE Append(map, [key |-> key, value |-> value])

\* Array.prototype.indexOf(x), from 1; 0 when x is not there
IndexOf(s, x) ==
    IF \E i \in 1..Len(s) : s[i] = x
    THEN CHOOSE i \in 1..Len(s) : s[i] = x /\ \A j \in 1..(i - 1) : s[j] # x
    ELSE 0

\* Array.prototype.splice(index, 1)
SpliceOne(s, index) == SubSeq(s, 1, index - 1) \o SubSeq(s, index + 1, Len(s))

\* a limit that drops the entry just pushed
dropNewest(pushed) ==
    IF Len(pushed) > maxHistorySize THEN SubSeq(pushed, 1, Len(pushed) - 1) ELSE pushed

\* if (queryHistory.length > maxHistorySize) queryHistory.shift()
limitHistory(pushed) ==
    IF Len(pushed) > maxHistorySize THEN Tail(pushed) ELSE pushed

\* recordQuery(query, parsed, resultNodes)
recordQuery(ctx, query, parsed, resultNodes) ==
    LET pushed == Append(ctx.queryHistory,
                         [query |-> query, parsed |-> parsed, resultNodes |-> resultNodes])
    IN [ctx EXCEPT
          !.queryHistory = limitHistory(pushed),
          !.sessionState = [lastIntent |-> Str(parsed.intent),
                            lastEntities |-> Arr(parsed.entities)],
          !.preferences.frequentQueries =
              MapSet(@, query, MapGetOrZero(@, query) + 1)]

\* the body of nodeIds.forEach in updateFocus: the id leaves its place and goes first
viewed(recentlyViewed, id) ==
    LET index == IndexOf(recentlyViewed, id)
    IN <<id>> \o (IF index > 0 THEN SpliceOne(recentlyViewed, index) ELSE recentlyViewed)

RECURSIVE viewedAll(_, _)
\* nodeIds.forEach(id => ...) in updateFocus
viewedAll(recentlyViewed, nodeIds) ==
    IF nodeIds = <<>> THEN recentlyViewed
    ELSE viewedAll(viewed(recentlyViewed, Head(nodeIds)), Tail(nodeIds))

\* updateFocus(nodeIds, category)
updateFocus(ctx, nodeIds, category) ==
    LET all == viewedAll(ctx.preferences.recentlyViewed.v, nodeIds)
    IN [ctx EXCEPT
          !.focusedNodes = nodeIds,
          !.focusedCategory = category,
          !.preferences.recentlyViewed =
              Arr(IF Len(all) > maxRecentlyViewed THEN SubSeq(all, 1, maxRecentlyViewed)
                  ELSE all)]

\* getLastQuery(): queryHistory[queryHistory.length - 1]
getLastQuery(ctx) ==
    IF ctx.queryHistory = <<>> THEN Undefined ELSE ctx.queryHistory[Len(ctx.queryHistory)]

\* the characters of the value of an entity, as === compares it with a node ID
ValueChars(e) ==
    IF e.type = "node_id" THEN e.value
    ELSE CASE e.value = "1" -> <<"1">>
           [] e.value = "2" -> <<"2">>
           [] e.value = "kpi" -> <<"k", "p", "i">>
           [] e.value = "goal" -> <<"g", "o", "a", "l">>
           [] e.value = "design" -> <<"d", "e", "s", "i", "g", "n">>
           [] e.value = "verify" -> <<"v", "e", "r", "i", "f", "y">>
           [] e.value = "none" -> <<"n", "o", "n", "e">>
           [] e.value = "sysml" -> <<"s", "y", "s", "m", "l">>
           [] e.value = "simulink" -> <<"s", "i", "m", "u", "l", "i", "n", "k">>
           [] e.value = "modelica" -> <<"m", "o", "d", "e", "l", "i", "c", "a">>
           [] e.value = "fmu" -> <<"f", "m", "u">>
           [] e.value = "achieved" -> <<"a", "c", "h", "i", "e", "v", "e", "d">>
           [] e.value = "unachieved" -> <<"u", "n", "a", "c", "h", "i", "e", "v", "e", "d">>

\* the alternatives of /\u5b83|\u8fd9\u4e2a|.../ in resolveReferences
ReferenceWords ==
    {<<"u5b83">>, <<"u8fd9", "u4e2a">>, <<"u8fd9", "u4e9b">>, <<"u90a3", "u4e2a">>,
     <<"u90a3", "u4e9b">>, <<"u4e0a", "u4e00", "u4e2a">>, <<"u521a", "u624d">>,
     <<"u4e4b", "u524d">>}

\* a forEach that pushes an entity for every id
referToEach(resolvedEntities, ids, raw) ==
    resolvedEntities \o
        [i \in 1..Len(ids) |-> [type |-> "node_id", value |-> ids[i], raw |-> raw]]

RECURSIVE referTo(_, _, _)
\* ids.forEach(nodeId => { if (!resolvedEntities.some(e => e.value === nodeId))
\*   resolvedEntities.push({ type: 'node_id', value: nodeId, raw }) })
referTo(resolvedEntities, ids, raw) ==
    IF ids = <<>> THEN resolvedEntities
    ELSE referTo(IF \E i \in 1..Len(resolvedEntities) :
                       ValueChars(resolvedEntities[i]) = Head(ids)
                 THEN resolvedEntities
                 ELSE Append(resolvedEntities,
                             [type |-> "node_id", value |-> Head(ids), raw |-> raw]),
                 Tail(ids), raw)

\* resolveReferences(query, parsed)
resolveReferences(ctx, query, parsed) ==
    LET hasReference == TestAny(ReferenceWords, query)
        lastQuery == getLastQuery(ctx)
        lastNodes == IF lastQuery # Undefined /\ lastQuery.resultNodes # Undefined
                     THEN lastQuery.resultNodes.v ELSE <<>>
        resolvedEntities ==
            IF hasReference
            THEN referTo(referTo(parsed.entities, lastNodes, "last"), ctx.focusedNodes, "focus")
            ELSE parsed.entities
    IN [intent |-> parsed.intent, confidence |-> parsed.confidence,
        entities |-> resolvedEntities, rawQuery |-> query]

\* addFavorite(nodeId)
addFavorite(ctx, nodeId) ==
    IF IndexOf(ctx.preferences.favoriteKPIs.v, nodeId) > 0 THEN ctx
    ELSE [ctx EXCEPT !.preferences.favoriteKPIs = Arr(Append(@.v, nodeId))]

\* removeFavorite(nodeId)
removeFavorite(ctx, nodeId) ==
    LET index == IndexOf(ctx.preferences.favoriteKPIs.v, nodeId)
    IN IF index > 0
       THEN [ctx EXCEPT !.preferences.favoriteKPIs = Arr(SpliceOne(@.v, index))]
       ELSE ctx

-----------------------------------------------------------------------------
(* The history of a ContextManager that records query after query *)

MaxRecords == 11

\* what a caller records: the query, what parseQuery made of it, and the nodes of
\* the reply if it had any
Recordings ==
    {[query |-> q, parsed |-> parseQuery(q), resultNodes |-> Arr(<<RespIdNVH>>)] :
        q \in {RespIdNVH \o <<" ", "u7684", "u94fe", "u8def">>}}
    \cup {[query |-> q, parsed |-> parseQuery(q), resultNodes |-> Undefined] :
        q \in {<<"u5b83", "u7684", "u5f71", "u54cd">>}}

RECURSIVE SumOfValues(_)
\* the number of queries recorded, which frequentQueries counts
SumOfValues(map) == IF map = <<>> THEN 0 ELSE Head(map).value + SumOfValues(Tail(map))

InitContext ==
    /\ nodes = <<>>
    /\ edges = <<>>
    /\ call = NoCall
    /\ run = Idle
    /\ PanelUnused

\* contextManager.recordQuery(query, parsed, resultNodes)
CallRecordQuery ==
    /\ call = NoCall
    /\ SumOfValues(context.preferences.frequentQueries) < MaxRecords
    /\ \E r \in Recordings :
          /\ context' = recordQuery(context, r.query, r.parsed, r.resultNodes)
          /\ call' = [op |-> "recordQuery", arg |-> r]
    /\ UNCHANGED <<engineVars, runVars, renderVars, appVars>>

\* contextManager.getLastQuery()
CallGetLastQuery ==
    /\ call = NoCall
    /\ call' = [op |-> "getLastQuery", res |-> getLastQuery(context)]
    /\ UNCHANGED <<engineVars, runVars, panelVars, appVars>>

NextHistory ==
    \/ CallRecordQuery
    \/ CallGetLastQuery
    \/ Return

SpecHistory == InitContext /\ [][NextHistory]_vars

-----------------------------------------------------------------------------
(* References: a ContextManager that records queries, follows the focus and is    *)
(* asked to resolve the references of a parsed query.                             *)

MaxRefRecords == 2

\* a node ID that is also the value of a level entity
RefIdOne == <<"1">>

\* the resultNodes of the replies recorded
RefResultNodes ==
    {Undefined, Arr(<<>>), Arr(<<RespIdNVH>>), Arr(<<RespIdGear, RespIdNVH, RespIdGear>>),
     Arr(<<RefIdOne>>)}

\* what a caller records
RefRecordings ==
    {[query |-> q, parsed |-> parseQuery(q), resultNodes |-> r] :
        q \in {<<"u94fe", "u8def">>}, r \in RefResultNodes}

\* the node arrays the focus is set to
RefFocusLists ==
    {<<>>, <<RespIdGear>>, <<RespIdNVH, RespIdGear>>, <<RefIdOne>>, <<RespIdGear, RespIdGear>>}

\* the queries whose references are resolved, each with what parseQuery made of it
RefQueries ==
    {[query |-> q, parsed |-> parseQuery(q)] :
        q \in {<<"u5b83", "u7684", "u5f71", "u54cd">>,
               RespIdNVH \o <<" ", "u7684", "u94fe", "u8def">>,
               <<"u8fd9", "u4e9b", " ">> \o RespIdNVH \o <<" ", "u4e00", "u7ea7">>}}

\* contextManager.recordQuery(query, parsed, resultNodes)
CallRecordQueryRef ==
    /\ call = NoCall
    /\ SumOfValues(context.preferences.frequentQueries) < MaxRefRecords
    /\ \E r \in RefRecordings :
          /\ context' = recordQuery(context, r.query, r.parsed, r.resultNodes)
          /\ call' = [op |-> "recordQuery", arg |-> r]
    /\ UNCHANGED <<engineVars, runVars, renderVars, appVars>>

\* contextManager.updateFocus(nodeIds)
CallUpdateFocusRef ==
    /\ call = NoCall
    /\ \E nodeIds \in RefFocusLists :
          /\ context' = updateFocus(context, nodeIds, Undefined)
          /\ call' = [op |-> "updateFocus", arg |-> nodeIds]
    /\ UNCHANGED <<engineVars, runVars, renderVars, appVars>>

\* contextManager.resolveReferences(query, parsed)
CallResolveReferences ==
    /\ call = NoCall
    /\ \E a \in RefQueries :
          call' = [op |-> "resolveReferences", arg |-> a,
                   res |-> resolveReferences(context, a.query, a.parsed)]
    /\ UNCHANGED <<engineVars, runVars, panelVars, appVars>>

NextReferences ==
    \/ CallRecordQueryRef
    \/ CallUpdateFocusRef
    \/ CallResolveReferences
    \/ Return

SpecReferences == InitContext /\ [][NextReferences]_vars

-----------------------------------------------------------------------------
(* Preferences: a ContextManager whose focus and favorites change, that is         *)
(* exported, and that is handed strings to import.  A string is the JSON text of *)
(* a value, or no JSON text at all; an object is a record of its keys, undefined *)
(* for a key that is not there.                                                  *)

MaxPrefRecords == 1

\* JSON.stringify(value)
JSONstringify(value) == [valid |-> TRUE, value |-> value]

\* JSON.parse(text): the value, or a SyntaxError thrown
JSONparse(text) ==
    IF text.valid THEN [threw |-> FALSE, value |-> text.value] ELSE [threw |-> TRUE]

\* { preferences: { favoriteKPIs, recentlyViewed, frequentQueries } }
MkSaved(favoriteKPIs, recentlyViewed, frequentQueries) ==
    [t |-> "object",
     preferences |-> [t |-> "object", favoriteKPIs |-> favoriteKPIs,
                      recentlyViewed |-> recentlyViewed,
                      frequentQueries |-> frequentQueries]]

\* Array.from(map.entries())
MapEntries(map) == Arr([i \in 1..Len(map) |-> Arr(<<Str(map[i].key), Num(map[i].value)>>)])

\* exportContext()
exportContext(ctx) ==
    JSONstringify(MkSaved(ctx.preferences.favoriteKPIs, ctx.preferences.recentlyViewed,
                          MapEntries(ctx.preferences.frequentQueries)))

RECURSIVE MapOfEntries(_, _)
\* the entries of an array of [key, value] arrays set one after the other
MapOfEntries(map, entries) ==
    IF entries = <<>> THEN map
    ELSE MapOfEntries(MapSet(map, Head(entries).v[1].v, Head(entries).v[2].v), Tail(entries))

\* new Map(iterable): a TypeError is thrown for a value that is not iterable and for
\* an element that is not an object
NewMap(iterable) ==
    IF iterable.t = "array" /\ \A i \in 1..Len(iterable.v) : iterable.v[i].t = "array"
    THEN [threw |-> FALSE, map |-> MapOfEntries(<<>>, iterable.v)]
    ELSE [threw |-> TRUE]

\* the statements of importContext after JSON.parse, for preferences that are truthy;
\* an exception leaves what was assigned before it
importPreferences(ctx, preferences) ==
    LET assigned == [ctx EXCEPT
                       !.preferences.favoriteKPIs = OrElse(preferences.favoriteKPIs, Arr(<<>>)),
                       !.preferences.recentlyViewed =
                           OrElse(preferences.recentlyViewed, Arr(<<>>))]
        map == NewMap(OrElse(preferences.frequentQueries, Arr(<<>>)))
    IN IF map.threw THEN assigned
       ELSE [assigned EXCEPT !.preferences.frequentQueries = map.map]

\* importContext(data): try { ... } catch (e) { console.error(...) }
importContext(ctx, data) ==
    LET parsed == JSONparse(data)
    IN IF parsed.threw THEN ctx
       ELSE IF parsed.value.t \in {"null", "undefined"} THEN ctx
       ELSE IF parsed.value.t # "object" THEN ctx
       ELSE IF ~Truthy(parsed.value.preferences) THEN ctx
       ELSE importPreferences(ctx, parsed.value.preferences)

\* a text that is no JSON
NoJSON == [valid |-> FALSE]

PrefQuery == <<"u94fe", "u8def">>

\* the strings handed to importContext, beside those exportContext made
ImportData ==
    {NoJSON,
     JSONstringify(Null),
     JSONstringify([t |-> "object", preferences |-> Undefined]),
     JSONstringify(MkSaved(Arr(<<RespIdGear>>), Arr(<<RespIdNVH, RespIdNVH>>),
                           Arr(<<Arr(<<Str(PrefQuery), Num(1)>>)>>))),
     JSONstringify(MkSaved(Arr(<<RespIdGear>>), Undefined, Num(5))),
     JSONstringify(MkSaved(Arr(<<RespIdNVH>>), Arr(<<RespIdGear>>), Arr(<<Str(PrefQuery)>>))),
     JSONstringify(MkSaved(Undefined, Arr([i \in 1..(maxRecentlyViewed + 1) |-> AnalysisKpiId(i)]),
                           Undefined))}

\* contextManager.recordQuery(query, parsed)
CallRecordQueryPref ==
    /\ call = NoCall
    /\ SumOfValues(context.preferences.frequentQueries) < MaxPrefRecords
    /\ context' = recordQuery(context, PrefQuery, parseQuery(PrefQuery), Undefined)
    /\ call' = [op |-> "recordQuery", arg |-> PrefQuery]
    /\ UNCHANGED <<engineVars, runVars, renderVars, appVars>>

\* contextManager.updateFocus(nodeIds)
CallUpdateFocus ==
    /\ call = NoCall
    /\ \E nodeIds \in {<<>>, <<RespIdNVH>>, <<RespIdGear, RespIdNVH>>, <<RespIdGear, RespIdGear>>} :
          /\ context' = updateFocus(context, nodeIds, Undefined)
          /\ call' = [op |-> "updateFocus", arg |-> nodeIds]
    /\ UNCHANGED <<engineVars, runVars, renderVars, appVars>>

\* contextManager.addFavorite(nodeId)
CallAddFavorite ==
    /\ call = NoCall
    /\ \E nodeId \in {RespIdNVH, RespIdGear} :
          /\ context' = addFavorite(context, nodeId)
          /\ call' = [op |-> "addFavorite", arg |-> nodeId]
    /\ UNCHANGED <<engineVars, runVars, renderVars, appVars>>

\* contextManager.removeFavorite(nodeId)
CallRemoveFavorite ==
    /\ call = NoCall
    /\ \E nodeId \in {RespIdNVH, RespIdGear} :
          /\ context' = removeFavorite(context, nodeId)
          /\ call' = [op |-> "removeFavorite", arg |-> nodeId]
    /\ UNCHANGED <<engineVars, runVars, renderVars, appVars>>

\* contextManager.clearContext()
CallClearContext ==
    /\ call = NoCall
    /\ context' = initializeContext
    /\ call' = [op |-> "clearContext"]
    /\ UNCHANGED <<engineVars, runVars, renderVars, appVars>>

\* contextManager.importContext(data)
CallImportContext ==
    /\ call = NoCall
    /\ \E data \in ImportData :
          /\ context' = importContext(context, data)
          /\ call' = [op |-> "importContext", arg |-> data]
    /\ UNCHANGED <<engineVars, runVars, renderVars, appVars>>

\* the string of exportContext() is kept, and a new ContextManager imports it
CallRestoreContext ==
    /\ call = NoCall
    /\ \E data \in {exportContext(context)} :
          /\ context' = importContext(initializeContext, data)
          /\ call' = [op |-> "importContext", arg |-> data, exportedFrom |-> context]
    /\ UNCHANGED <<engineVars, runVars, renderVars, appVars>>

NextPreferences ==
    \/ CallRecordQueryPref
    \/ CallUpdateFocus
    \/ CallAddFavorite
    \/ CallRemoveFavorite
    \/ CallClearContext
    \/ CallImportContext
    \/ CallRestoreContext
    \/ Return

SpecPreferences == InitContext /\ [][NextPreferences]_vars

-----------------------------------------------------------------------------
(* App and TradeoffAnalysis: the page, the steps of the workflow, the scheme     *)
(* selected and the drawer of the task decomposition.  What the user can click   *)
(* is what the render of the state shows.                                        *)

\* the ids of designSchemes
SchemeIds == {"scheme-a", "scheme-b", "scheme-c"}

\* the KPI systems offered in the step kpi-selection
KPISystems == {"recommended", "existing"}

\* steps, in its order
WorkflowSteps == <<"define", "kpi-selection", "decompose", "compare">>

\* steps.findIndex(s => s.id === step)
StepIndex(step) == CHOOSE i \in 1..Len(WorkflowSteps) : WorkflowSteps[i] = step

\* designSchemes.find(s => s.id === selectedScheme)
FindScheme(selectedScheme) ==
    IF selectedScheme \in SchemeIds THEN Str(selectedScheme) ELSE Undefined

\* a page that stays within reach under an open drawer
pageAlwaysInReach == TRUE

\* the backdrop of the open drawer (fixed inset-0 z-40) lies over the whole page, the
\* header (z-20) included
pageInReach == ~app.tradeoff.isWBSDrawerOpen

\* a click on a step of the stepper: (isPassed || isActive) && setCurrentStep(step.id)
ClickStep ==
    /\ app.currentPage = "tradeoff"
    /\ pageInReach
    /\ \E i \in 1..Len(WorkflowSteps) :
          /\ i <= StepIndex(app.tradeoff.currentStep)
          /\ app' = [app EXCEPT !.tradeoff.currentStep = WorkflowSteps[i]]
    /\ UNCHANGED <<engineVars, call, runVars, panelVars>>

\* onSelectSystem(system) and onSelectSystem(null) of KPISystemSelection
SelectKPISystem ==
    /\ app.currentPage = "tradeoff"
    /\ pageInReach
    /\ app.tradeoff.currentStep = "kpi-selection"
    /\ \E system \in {Str(s) : s \in KPISystems} \cup {Null} :
          /\ system = Null => app.tradeoff.selectedKPISystem # Null
          /\ app' = [app EXCEPT !.tradeoff.selectedKPISystem = system]
    /\ UNCHANGED <<engineVars, call, runVars, panelVars>>

\* the button of each step that leads to the next one; that of kpi-selection is
\* rendered when a system is selected
NextStep ==
    /\ app.currentPage = "tradeoff"
    /\ pageInReach
    /\ app.tradeoff.currentStep # "compare"
    /\ app.tradeoff.currentStep = "kpi-selection" => app.tradeoff.selectedKPISystem # Null
    /\ app' = [app EXCEPT !.tradeoff.currentStep =
                              WorkflowSteps[StepIndex(app.tradeoff.currentStep) + 1]]
    /\ UNCHANGED <<engineVars, call, runVars, panelVars>>

\* setSelectedScheme(s.id) from the table, the chart or the cards of the step compare
SelectScheme ==
    /\ app.currentPage = "tradeoff"
    /\ pageInReach
    /\ app.tradeoff.currentStep = "compare"
    /\ \E id \in SchemeIds : app' = [app EXCEPT !.tradeoff.selectedScheme = id]
    /\ UNCHANGED <<engineVars, call, runVars, panelVars>>

\* the button that is rendered in the step compare: the drawer opens if the scheme
\* selected is one of designSchemes
OpenWBSDrawer ==
    /\ app.currentPage = "tradeoff"
    /\ pageInReach
    /\ app.tradeoff.currentStep = "compare"
    /\ app' = IF FindScheme(app.tradeoff.selectedScheme) # Undefined
              THEN [app EXCEPT !.tradeoff.isWBSDrawerOpen = TRUE]
              ELSE app
    /\ UNCHANGED <<engineVars, call, runVars, panelVars>>

\* onClose: the backdrop, the cross and the button back of the drawer
CloseWBSDrawer ==
    /\ app.currentPage = "tradeoff"
    /\ app.tradeoff.isWBSDrawerOpen
    /\ app' = [app EXCEPT !.tradeoff.isWBSDrawerOpen = FALSE]
    /\ UNCHANGED <<engineVars, call, runVars, panelVars>>

\* onConfirm of the drawer: onProceedToEvaluation(scheme) if the scheme is found; App
\* then renders SteeringKPIFlow and TradeoffAnalysis is unmounted
ConfirmWBSDrawer ==
    /\ app.currentPage = "tradeoff"
    /\ app.tradeoff.isWBSDrawerOpen
    /\ app' = IF FindScheme(app.tradeoff.selectedScheme) # Undefined
              THEN [currentPage |-> "evaluation",
                    selectedScheme |-> FindScheme(app.tradeoff.selectedScheme),
                    tradeoff |-> Undefined]
              ELSE app
    /\ UNCHANGED <<engineVars, call, runVars, panelVars>>

\* handleBackToTradeoff: App renders a new TradeoffAnalysis
BackToTradeoff ==
    /\ app.currentPage = "evaluation"
    /\ app' = [app EXCEPT !.currentPage = "tradeoff", !.tradeoff = TradeoffMounted]
    /\ UNCHANGED <<engineVars, call, runVars, panelVars>>

InitWorkflow ==
    /\ nodes = <<>>
    /\ edges = <<>>
    /\ call = NoCall
    /\ run = Idle
    /\ PanelUnused

NextWorkflow ==
    \/ ClickStep
    \/ SelectKPISystem
    \/ NextStep
    \/ SelectScheme
    \/ OpenWBSDrawer
    \/ CloseWBSDrawer
    \/ ConfirmWBSDrawer
    \/ BackToTradeoff

SpecWorkflow == InitWorkflow /\ [][NextWorkflow]_vars

-----------------------------------------------------------------------------
(* CopilotPanel.  propNodes, propEdges are the props of the latest render; nodes, *)
(* edges are the arrays of engineRef.current; a timer holds what the callback of *)
(* setTimeout closed over: the query and the props of the render in which        *)
(* handleSendMessage ran.                                                        *)

MaxSends == 1

\* the message processQuery returns for a response of the generator
assistantMessage(response) ==
    [type |-> "assistant",
     content |-> response.content,
     data |-> IF response.nodes # Undefined
              THEN [nodes |-> response.nodes.v,
                    edges |-> IF response.edges # Undefined THEN response.edges.v ELSE <<>>,
                    action |-> response.action]
              ELSE Undefined]

\* processQuery(query) of a render whose props are (cns, ces), with
\* engineRef.current holding (ens, ees)
processQuery(ens, ees, cns, ces, query) ==
    assistantMessage(generateResponse(ens, ees, cns, parseQuery(query)))

WelcomeMessage == [type |-> "assistant", content |-> [kind |-> "welcome"], data |-> Undefined]

PanelIdNVH == <<"K", "P", "I", "_", "N", "V", "H">>
PanelIdGear == <<"D", "_", "G", "E", "A", "R">>

\* the arrays the host may hand to the panel
PanelNodeLists ==
    {<<>>,
     <<MkLabelledNode(PanelIdNVH, "kpi", MkMetrics(TRUE, Undefined), "NVH", "noise")>>,
     <<MkLabelledNode(PanelIdNVH, "kpi", MkMetrics(FALSE, Undefined), "NVH v2", "noise"),
       MkLabelledNode(PanelIdGear, "design", Undefined, "Gear", "ratio")>>}

PanelEdgeLists ==
    {<<>>, <<MkEdge(1, PanelIdGear, PanelIdNVH)>>}

\* what the user may send
PanelQueries ==
    {PanelIdNVH \o <<" ", "u7684", "u94fe", "u8def">>,
     PanelIdNVH \o <<" ", "u7684", "u5f71", "u54cd">>,
     <<"u94fe", "u8def">>,
     <<"u7684">>,
     <<" ">>}

\* the panel is mounted: useRef(new CopilotEngine(nodes, edges)), the effects of the
\* first render have run (updateData on the same arrays, the welcome message)
InitPanel ==
    /\ propNodes \in PanelNodeLists
    /\ propEdges \in PanelEdgeLists
    /\ nodes = propNodes
    /\ edges = propEdges
    /\ effectPending = FALSE
    /\ messages = <<WelcomeMessage>>
    /\ isProcessing = FALSE
    /\ timers = <<>>
    /\ highlights = <<>>
    /\ context = initializeContext
    /\ app = AppMounted
    /\ call = NoCall
    /\ run = Idle

\* the messages the user has sent
Sent ==
    LET isUser(m) == m.type = "user"
    IN Len(SelectSeq(messages, isUser))

\* the host re-renders the panel with new arrays; the effect of [nodes, edges] is
\* scheduled
HostRender ==
    /\ call = NoCall
    /\ \E ns \in PanelNodeLists, es \in PanelEdgeLists :
          /\ <<ns, es>> # <<propNodes, propEdges>>
          /\ propNodes' = ns
          /\ propEdges' = es
    /\ effectPending' = TRUE
    /\ UNCHANGED <<engineVars, call, runVars, messages, isProcessing, timers, highlights,
                   context, appVars>>

\* useEffect(() => { engineRef.current.updateData(nodes, edges) }, [nodes, edges])
UpdateDataEffect ==
    /\ call = NoCall
    /\ effectPending
    /\ updateData(propNodes, propEdges)
    /\ effectPending' = FALSE
    /\ UNCHANGED <<call, runVars, propNodes, propEdges, messages, isProcessing, timers,
                   highlights, context, appVars>>

\* a form and quick command buttons that are never disabled
canSubmitAlways == TRUE

\* disabled={isProcessing} on the input, the submit button and the quick command buttons
canSubmit == ~isProcessing

\* handleSendMessage(query), from the form or a quick command
handleSendMessageOf(queries, maxSends) ==
    /\ call = NoCall
    /\ canSubmit
    /\ Sent < maxSends
    /\ \E query \in queries :
          /\ IF trim(query) = <<>>
             THEN UNCHANGED <<messages, isProcessing, timers>>
             ELSE /\ messages' = Append(messages, [type |-> "user", content |-> query,
                                                   data |-> Undefined])
                  /\ isProcessing' = TRUE
                  /\ timers' = Append(timers, [query |-> query, nodes |-> propNodes,
                                               edges |-> propEdges])
          /\ call' = [op |-> "handleSendMessage", arg |-> query]
    /\ UNCHANGED <<engineVars, runVars, propNodes, propEdges, effectPending, highlights,
                   context, appVars>>

handleSendMessage == handleSendMessageOf(PanelQueries, MaxSends)

\* the callback of setTimeout(..., 500)
TimerFires ==
    /\ call = NoCall
    /\ timers # <<>>
    /\ \E response \in {processQuery(nodes, edges, Head(timers).nodes, Head(timers).edges,
                                     Head(timers).query)} :
          /\ messages' = Append(messages, response)
          /\ isProcessing' = FALSE
          /\ highlights' = IF response.data # Undefined
                           THEN Append(highlights, [nodeIds |-> response.data.nodes,
                                                    edgeIds |-> response.data.edges])
                           ELSE highlights
          /\ call' = [op |-> "processQuery", arg |-> Head(timers).query,
                      parsed |-> parseQuery(Head(timers).query), res |-> response]
    /\ timers' = Tail(timers)
    /\ UNCHANGED <<engineVars, runVars, propNodes, propEdges, effectPending, context,
                   appVars>>

NextPanel ==
    \/ HostRender
    \/ UpdateDataEffect
    \/ handleSendMessage
    \/ TimerFires
    \/ Return

SpecPanel == InitPanel /\ [][NextPanel]_vars

-----------------------------------------------------------------------------
(* A conversation with the panel: several queries, one after the reply to the    *)
(* other, on the arrays the panel was mounted with.                              *)

MaxTurns == 2

\* what the user may say in a conversation
DialogueQueries ==
    {PanelIdNVH \o <<" ", "u7684", "u94fe", "u8def">>,
     <<"u5b83", "u7684", "u5f71", "u54cd">>,
     <<"u8fd9", "u4e9b", "u7684", "u94fe", "u8def">>,
     <<"u7684">>,
     <<" ">>}

handleSendMessageInDialogue == handleSendMessageOf(DialogueQueries, MaxTurns)

NextDialogue ==
    \/ handleSendMessageInDialogue
    \/ TimerFires
    \/ Return

SpecDialogue == InitPanel /\ [][NextDialogue]_vars

\* a timer is set and no handler is running: the condition under which TimerFires
\* can take a step
TimerDue == call = NoCall /\ timers # <<>>

\* WF_vars(TimerFires), with TimerDue for ENABLED <<TimerFires>>_vars
TimerFair == []<>(~TimerDue) \/ []<><<TimerFires>>_vars

\* the callback of a timer that was set runs after its delay, and a handler that was
\* entered runs to its end
SpecDialogueLive == SpecDialogue /\ TimerFair /\ WF_vars(Return)

-----------------------------------------------------------------------------
(* Reachability, stated without the traversal *)

\* the edge indices of es whose edge leaves or enters the set R, by direction
StepFrom(es, R, dir) ==
    R \cup {es[i].target : i \in {j \in 1..Len(es) : dir # "up" /\ es[j].source \in R}}
      \cup {es[i].source : i \in {j \in 1..Len(es) : dir # "down" /\ es[j].target \in R}}

RECURSIVE Closure(_, _, _)
\* the least set containing R and closed under the edges followed in direction dir
Closure(es, R, dir) ==
    IF StepFrom(es, R, dir) = R THEN R ELSE Closure(es, StepFrom(es, R, dir), dir)

\* the start IDs that are the id of a node of the snapshot
ValidStarts(ns, S) == {S[i] : i \in {j \in 1..Len(S) : HasNode(ns, S[j])}}

\* C1 (as amended): traceChain(S).nodes is exactly the set of IDs reachable, following
\* every edge in either direction, from the members of S that are ids of nodes of the
\* snapshot; a start ID that is not a node of the snapshot contributes nothing.
C1_ChainIsWeakClosure ==
    call.op = "traceChain" =>
        Range(call.res.nodes) = Closure(edges, ValidStarts(nodes, call.arg), "both")

\* C1 witness: a chain traced from a list holding a node and a non-node, over an edge
C1_Witness ==
    /\ call.op = "traceChain"
    /\ \E i \in 1..Len(call.arg) : ~HasNode(nodes, call.arg[i])
    /\ \E i \in 1..Len(call.arg) : HasNode(nodes, call.arg[i])
    /\ Len(call.res.nodes) >= 2

\* C1 as stated: traceChain(S).nodes is exactly the set of IDs reachable from S when
\* every edge may be followed in either direction, for every list S of start IDs.
C1_Original ==
    call.op = "traceChain" =>
        Range(call.res.nodes) =
            Closure(edges, Range(call.arg), "both")
              \cap ({nodes[i].id : i \in 1..Len(nodes)}
                    \cup {edges[i].source : i \in 1..Len(edges)}
                    \cup {edges[i].target : i \in 1..Len(edges)})

\* no self-loop and no two edges with the same source and target
SimpleGraph(es) ==
    /\ \A i \in 1..Len(es) : es[i].source # es[i].target
    /\ \A i, j \in 1..Len(es) :
          (es[i].source = es[j].source /\ es[i].target = es[j].target) => i = j

\* C2: every edge whose source and target are both in traceChain(S).nodes has its id
\* in traceChain(S).edges, both edges of a two-node cycle included (stated here for
\* graphs without self-loops and parallel edges, where it already fails).
C2_ChainHasAllEdges ==
    (call.op = "traceChain" /\ SimpleGraph(edges)) =>
        \A i \in 1..Len(edges) :
            (edges[i].source \in Range(call.res.nodes)
             /\ edges[i].target \in Range(call.res.nodes))
                => edges[i].id \in Range(call.res.edges)

\* C3: traceDependencies(N).nodes is N plus the IDs reachable from N along edges in
\* source->target direction; traceImpact(N).nodes is N plus the IDs from which N is
\* reachable. With edges X->Y, Y->Z: traceDependencies(Y) = {Y, Z}, traceImpact(Y) = {X, Y}.
C3_Directionality ==
    /\ call.op = "traceDependencies" =>
          Range(call.res.nodes) = Closure(edges, {call.arg}, "down")
    /\ call.op = "traceImpact" =>
          Range(call.res.nodes) = Closure(edges, {call.arg}, "up")
    /\ (Len(edges) = 2 /\ edges[1].source = "X" /\ edges[1].target = "Y"
        /\ edges[2].source = "Y" /\ edges[2].target = "Z") =>
          /\ (call.op = "traceDependencies" /\ call.arg = "Y")
                => Range(call.res.nodes) = {"Y", "Z"}
          /\ (call.op = "traceImpact" /\ call.arg = "Y")
                => Range(call.res.nodes) = {"X", "Y"}

\* C3 witness: traceImpact(Y) has returned on the graph X->Y, Y->Z
C3_Witness ==
    /\ Len(edges) = 2
    /\ edges[1].source = "X" /\ edges[1].target = "Y"
    /\ edges[2].source = "Y" /\ edges[2].target = "Z"
    /\ call.op = "traceImpact" /\ call.arg = "Y"
    /\ Len(call.res.nodes) = 2

\* C4: traceChain, traceImpact and traceDependencies terminate on every finite graph,
\* directed cycles and self-loops included; on the graph with edges X->Y and Y->X,
\* traceChain([X]) returns the node set {X, Y}.
C4_Terminates ==
    /\ (run.pc = "running") ~> (run.pc = "done")
    /\ []((/\ run.pc = "done"
           /\ run.mode = "traceChain"
           /\ run.starts = <<"X">>
           /\ Len(edges) = 2
           /\ edges[1].source = "X" /\ edges[1].target = "Y"
           /\ edges[2].source = "Y" /\ edges[2].target = "X")
          => Range(run.relatedNodes) = {"X", "Y"})

\* C4 witness: traceImpact has returned on a graph with a directed two-node cycle
C4_Witness ==
    /\ run.pc = "done"
    /\ run.mode = "traceImpact"
    /\ run.starts = <<"X">>
    /\ Len(edges) = 2
    /\ edges[1].source = "X" /\ edges[1].target = "Y"
    /\ edges[2].source = "Y" /\ edges[2].target = "X"
    /\ Range(run.relatedNodes) = {"X", "Y"}

\* the stepwise traversal returns what the recursive definition returns, and the stack
\* never reaches its cap
RunAgrees ==
    /\ Len(run.stack) < MaxStack
    /\ run.pc = "done" =>
          LET res == CASE run.mode = "traceChain" -> traceChain(nodes, edges, run.starts)
                       [] run.mode = "traceImpact" -> traceImpact(edges, run.starts[1])
                       [] run.mode = "traceDependencies" -> traceDependencies(edges, run.starts[1])
          IN run.relatedNodes = res.nodes /\ run.relatedEdges = res.edges

\* the list a calculateStats call worked on
StatsTarget == IF call.arg = Undefined THEN nodes ELSE call.arg.v

IsKpi(n) == n.category = "kpi"

\* C7: calculateStats(nodes).byStatus.achieved + byStatus.unachieved equals the number
\* of nodes of the input whose category is 'kpi', metrics being an optional field.
C7_StatsCountEveryKpi ==
    call.op = "calculateStats" =>
        call.res.byStatus.achieved + call.res.byStatus.unachieved = Count(StatsTarget, IsKpi)

\* what each filter of a condition asks of a node
Satisfies(n, condition, k) ==
    CASE k = "category" -> n.category \in Range(condition.category.v)
      [] k = "achieved" -> n.category = "kpi" /\ MetricsAchieved(n) = condition.achieved
      [] k = "modelType" -> n.category = "kpi" /\ MetricsModelType(n) = condition.modelType
      [] k = "level" -> n.level = condition.level
      [] k = "hasModel" -> n.category = "kpi"
                           /\ Truthy(MetricsModelType(n)) = condition.hasModel.v
      [] k = "nodeIds" -> n.id \in Range(condition.nodeIds.v)

\* a filter counts as supplied when its key is there with a value other than null and,
\* for the two list filters, with a list that is not empty
Supplied(condition, k) ==
    /\ condition[k] # Undefined
    /\ condition[k] # Null \/ k = "modelType"
    /\ k \in {"category", "nodeIds"} => Len(condition[k].v) > 0

\* a filter counts as supplied when its key is there (null aside for achieved)
SuppliedByKey(condition, k) ==
    /\ condition[k] # Undefined
    /\ condition[k] # Null \/ k = "modelType"

\* the condition with the one key k of condition
Only(condition, k) == [EmptyCondition EXCEPT ![k] = condition[k]]

RuleOrder ==
    <<[words |-> StatsWords, intent |-> "query_stats", confidence |-> 90],
      [words |-> ChainWords, intent |-> "trace_chain", confidence |-> 90],
      [words |-> ImpactWords, intent |-> "analyze_impact", confidence |-> 90],
      [words |-> IssueWords, intent |-> "find_issues", confidence |-> 80],
      [words |-> SuggestWords, intent |-> "suggest", confidence |-> 80],
      [words |-> CompareWords, intent |-> "compare", confidence |-> 80],
      [words |-> CorrelationWords, intent |-> "correlation", confidence |-> 80],
      [words |-> HealthWords, intent |-> "health_check", confidence |-> 90],
      [words |-> PriorityWords, intent |-> "prioritize", confidence |-> 80],
      [words |-> DisplayWords, intent |-> "query_nodes", confidence |-> 70]>>

\* the rules whose keyword set occurs in the lowercased query
MatchingRules(query) ==
    {i \in 1..Len(RuleOrder) : TestAny(RuleOrder[i].words, toLowerCase(query))}

\* C9: parseQuery returns the intent and fixed confidence of the first rule, in the
\* order stats, chain, impact, issue, suggest, compare, correlation, health, priority,
\* display, whose keyword set occurs in the lowercased query, whichever later rules
\* match too; the query with stats and chain keywords yields query_stats; a query that
\* matches no rule yields unknown.
C9_IntentPriority ==
    call.op = "parseQuery" =>
        LET m == MatchingRules(call.arg)
        IN /\ m = {} => call.res.intent = "unknown"
           /\ m # {} =>
                LET first == CHOOSE i \in m : \A j \in m : i <= j
                IN /\ call.res.intent = RuleOrder[first].intent
                   /\ call.res.confidence = RuleOrder[first].confidence
           /\ call.arg = PriorityTestQuery => call.res.intent = "query_stats"

\* C9 witness: the test query, which has a stats and a chain keyword, has been parsed
C9_Witness ==
    /\ call.op = "parseQuery"
    /\ call.arg = PriorityTestQuery
    /\ {1, 2} \subseteq MatchingRules(call.arg)
    /\ call.res.intent = "query_stats"

\* the tokens of a query: its maximal runs of letters, digits and underscores
Tokens(s) ==
    {SubSeq(s, i, j) : i \in 1..Len(s), j \in 1..Len(s)} \cap
    {SubSeq(s, ij[1], ij[2]) : ij \in {p \in (1..Len(s)) \X (1..Len(s)) :
        /\ p[1] <= p[2]
        /\ \A k \in p[1]..p[2] : IsWordChar(s[k])
        /\ p[1] = 1 \/ ~IsWordChar(s[p[1] - 1])
        /\ p[2] = Len(s) \/ ~IsWordChar(s[p[2] + 1])}}

\* C10: for every token that starts with KPI_, D_, V_ or G_ of a query the code itself
\* advertises, parseQuery returns a node_id entity whose value is that token verbatim
\* with confidence 0.95.
C10_NodeIdTokensExtracted ==
    (call.op = "parseQuery" /\ call.arg \in AdvertisedQueries) =>
        \A tok \in Tokens(call.arg) :
            HasIdPrefix(tok) =>
                \E i \in 1..Len(call.res.entities) :
                    /\ call.res.entities[i].type = "node_id"
                    /\ call.res.entities[i].value = tok
                    /\ call.res.entities[i].confidence = 95

\* C5: traceChain on the IDs of traceChain(S).nodes, in the order the result Set yields
\* them, returns the same node set and the same edge set as traceChain(S).
C5_ChainIdempotent ==
    call.op = "traceChainAgain" =>
        /\ Range(call.res.nodes) = Range(call.first.nodes)
        /\ Range(call.res.edges) = Range(call.first.edges)

\* C5 witness: a second traceChain has returned on a first result that has edges and
\* whose start list named two nodes
C5_Witness ==
    /\ call.op = "traceChainAgain"
    /\ Len(call.first.edges) >= 2
    /\ Len(call.first.nodes) >= 3

\* C6: when the callback of a pending query runs after updateData has been applied to
\* the host's latest arrays, the message it produces is the one computed entirely from
\* those arrays: no lookup, label, count or highlighted ID comes from older arrays.
C6_ResponseFromLatestSnapshot ==
    (call.op = "processQuery" /\ ~effectPending) =>
        call.res = processQuery(nodes, edges, propNodes, propEdges, call.arg)

-----------------------------------------------------------------------------
(* The payload of a response *)

\* the intents whose handlers can return a nodes payload
PayloadIntents ==
    {"query_nodes", "trace_chain", "analyze_impact", "find_issues", "suggest", "compare",
     "correlation", "prioritize"}

\* the unachieved kpi nodes of the snapshot, the larger downstream closure first
UnachievedByImpact ==
    LET isUnachieved(n) == n.category = "kpi" /\ MetricsAchieved(n) = Bool(FALSE)
        unachieved == SelectSeq(nodes, isUnachieved)
    IN Items(SortByKeyDesc([i \in 1..Len(unachieved) |->
                [key |-> Cardinality(Closure(edges, {unachieved[i].id}, "down")),
                 item |-> unachieved[i]]]))

\* the kpi nodes of the snapshot without an outgoing verify neighbour
KpisWithoutVerify ==
    LET lacks(n) ==
            /\ n.category = "kpi"
            /\ ~\E i \in 1..Len(edges), j \in 1..Len(nodes) :
                    /\ edges[i].source = n.id
                    /\ edges[i].target = nodes[j].id
                    /\ nodes[j].category = "verify"
    IN SelectSeq(nodes, lacks)

\* the node IDs the handler of a parsed query identifies in the snapshot: the matched
\* KPIs, the named node, the compared pair, the top-ranked items
SeedOf(parsed, res) ==
    LET isId(e) == e.type = "node_id"
        ids == SelectSeq(parsed.entities, isId)
    IN CASE parsed.intent = "query_nodes" ->
                IdsOf(queryNodes(nodes, queryNodesCondition(parsed)))
         [] parsed.intent \in {"trace_chain", "analyze_impact", "suggest"} -> <<ids[1].value>>
         [] parsed.intent = "compare" -> <<ids[1].value, ids[2].value>>
         [] parsed.intent = "find_issues" ->
                IF res.content.kind = "bottlenecks" THEN IdsOf(Slice(UnachievedByImpact, 3))
                ELSE IdsOf(KpisWithoutVerify)
         [] parsed.intent = "correlation" -> pairIds(Slice(analyzeCorrelations(nodes, edges), 5))
         [] parsed.intent = "prioritize" ->
                LET top == Slice(prioritizeNodes(nodes, edges), 5)
                IN [i \in 1..Len(top) |-> top[i].nodeId]

\* C11 (as amended): a response that carries a nodes payload comes from one of the
\* eight intents and carries exactly traceChain(seed).nodes and traceChain(seed).edges,
\* seed being the node IDs the handler identified, except that the response to
\* analyze_impact carries traceImpact(named node).nodes and .edges.
C11_PayloadIsChainOfSeed ==
    (call.op = "generateResponse" /\ call.res.nodes # Undefined) =>
        /\ call.arg.intent \in PayloadIntents
        /\ LET seed == SeedOf(call.arg, call.res)
               expected == IF call.arg.intent = "analyze_impact"
                           THEN traceImpact(edges, seed[1])
                           ELSE traceChain(nodes, edges, seed)
           IN /\ call.res.nodes = Arr(expected.nodes)
              /\ call.res.edges = Arr(expected.edges)

\* C11 witness: the response to a correlation query highlights a chain of at least
\* three nodes and two edges
C11_Witness ==
    /\ call.op = "generateResponse"
    /\ call.arg.intent = "correlation"
    /\ call.res.nodes # Undefined
    /\ Len(call.res.nodes.v) >= 3
    /\ Len(call.res.edges.v) >= 2

\* C11 as stated: every response that carries a nodes payload carries exactly
\* traceChain(seed).nodes and traceChain(seed).edges, for each of the eight intents.
C11_Original ==
    (call.op = "generateResponse" /\ call.res.nodes # Undefined) =>
        LET expected == traceChain(nodes, edges, SeedOf(call.arg, call.res))
        IN /\ call.res.nodes = Arr(expected.nodes)
           /\ call.res.edges = Arr(expected.edges)

-----------------------------------------------------------------------------
(* Degraded responses *)

\* the values of the node_id entities of a parsed query, in order
NamedIds(parsed) ==
    LET isId(e) == e.type = "node_id"
        ids == SelectSeq(parsed.entities, isId)
    IN [i \in 1..Len(ids) |-> ids[i].value]

IsNodeId(id) == \E i \in 1..Len(nodes) : nodes[i].id = id
IsKpiId(id) == \E i \in 1..Len(nodes) : nodes[i].id = id /\ nodes[i].category = "kpi"

\* the parsed query lacks an entity its handler requires, or names an ID its handler
\* cannot use
Degraded(parsed) ==
    LET ids == NamedIds(parsed)
    IN \/ parsed.intent \in {"trace_chain", "analyze_impact"} /\ Len(ids) = 0
       \/ parsed.intent = "compare" /\ Len(ids) < 2
       \/ parsed.intent \in {"trace_chain", "analyze_impact", "suggest"}
            /\ Len(ids) > 0 /\ ~IsNodeId(ids[1])
       \/ parsed.intent = "compare" /\ Len(ids) >= 2
            /\ (~IsKpiId(ids[1]) \/ ~IsKpiId(ids[2]))

\* the clarifying prompts and the 'not found' / 'cannot compare' messages
DegradedContents ==
    {"askChainNodeId", "askImpactNodeId", "askTwoNodeIds", "nodeNotFound", "cannotCompare"}

\* C12: trace_chain and analyze_impact with no node_id entity, compare with fewer than
\* two, and trace_chain, analyze_impact, suggest or compare naming an ID that is not a
\* node (for compare, not a kpi node) of the snapshot get a response that is one of the
\* fixed non-empty messages, with no nodes, no edges and no action.
C12_ContentOnlyDegradation ==
    (call.op = "generateResponse" /\ Degraded(call.arg)) =>
        /\ call.res.content.kind \in DegradedContents
        /\ call.res.nodes = Undefined
        /\ call.res.edges = Undefined
        /\ call.res.action = Undefined

\* C12 witness: a compare query names a kpi node and a design node of the snapshot and
\* is answered with the 'cannot compare' message
C12_Witness ==
    /\ call.op = "generateResponse"
    /\ call.arg.intent = "compare"
    /\ Len(NamedIds(call.arg)) >= 2
    /\ IsKpiId(NamedIds(call.arg)[1])
    /\ IsNodeId(NamedIds(call.arg)[2])
    /\ ~IsKpiId(NamedIds(call.arg)[2])
    /\ call.res.content.kind = "cannotCompare"

-----------------------------------------------------------------------------
(* Traversals from an ID that is not a node *)

\* C13: for an ID that is not the id of any node of the snapshot, traceChain,
\* traceImpact and traceDependencies return a result with no edge and no node ID other
\* than at most the queried ID, even when an edge of the snapshot names the ID.
\* (Stated for traceImpact and traceDependencies on graphs without self-loops and
\* without parallel edges.)
C13_MissingIdHasEmptyNeighbourhood ==
    /\ (call.op = "traceChain" /\ Len(call.arg) = 1 /\ ~HasNode(nodes, call.arg[1])) =>
          /\ call.res.edges = <<>>
          /\ Range(call.res.nodes) \subseteq {call.arg[1]}
    /\ (call.op \in {"traceImpact", "traceDependencies"} /\ ~HasNode(nodes, call.arg)
          /\ SimpleGraph(edges)) =>
          /\ call.res.edges = <<>>
          /\ Range(call.res.nodes) \subseteq {call.arg}

-----------------------------------------------------------------------------
(* Unrecognized input *)

\* the response with the fixed help text
HelpResponse ==
    [content |-> [kind |-> "help"], nodes |-> Undefined, edges |-> Undefined,
     action |-> Undefined]

\* C14: for a raw query that matches no intent rule, parseQuery returns intent unknown
\* with confidence 0.5, and generateResponse on it returns the same fixed help text for
\* every snapshot and every raw query, with no nodes, no edges and no action.
C14_UnknownGetsFixedHelp ==
    call.op = "generateResponse" =>
        /\ MatchingRules(call.arg.rawQuery) = {} =>
              (call.arg.intent = "unknown" /\ call.arg.confidence = 50)
        /\ call.arg.intent = "unknown" => call.res = HelpResponse

\* C14 witness: the empty query and a query that names a node of the snapshot but
\* matches no rule are both answered with the help text on a snapshot with an edge
C14_Witness ==
    /\ call.op = "generateResponse"
    /\ call.arg.intent = "unknown"
    /\ call.arg.rawQuery # <<>>
    /\ call.arg.entities # <<>>
    /\ Len(edges) > 0
    /\ call.res = HelpResponse

-----------------------------------------------------------------------------
(* Priorities *)

\* the ids of the verify nodes that are outgoing neighbours of the node n
VerifyNeighbours(n) ==
    {edges[i].target : i \in {j \in 1..Len(edges) :
        /\ edges[j].source = n.id
        /\ \E k \in 1..Len(nodes) :
              nodes[k].id = edges[j].target /\ nodes[k].category = "verify"}}

\* no scoring factor applies to the kpi node n: it is achieved, has a model, has an
\* outgoing verify neighbour, is not level 1, and nothing is downstream of it but its
\* verify neighbours
NoFactorApplies(n) ==
    /\ MetricsAchieved(n) = Bool(TRUE)
    /\ Truthy(MetricsModelType(n))
    /\ VerifyNeighbours(n) # {}
    /\ n.level # Num(1)
    /\ Closure(edges, {n.id}, "down") \subseteq {n.id} \cup VerifyNeighbours(n)

\* C15: prioritizeNodes leaves out every kpi node to which no scoring factor applies,
\* and when no factor applies to any kpi node the result is empty and the prioritize
\* response is the 'nothing to prioritize' message.
C15_NoFactorKpiExcluded ==
    (call.op = "generateResponse" /\ call.arg.intent = "prioritize") =>
        LET kpis == {nodes[i] : i \in {j \in 1..Len(nodes) : nodes[j].category = "kpi"}}
            result == prioritizeNodes(nodes, edges)
        IN /\ \A n \in kpis :
                NoFactorApplies(n) => ~\E i \in 1..Len(result) : result[i].nodeId = n.id
           /\ (\A n \in kpis : NoFactorApplies(n)) =>
                (result = <<>> /\ call.res.content.kind = "nothingToPrioritize")

-----------------------------------------------------------------------------
(* Empty results *)

\* every kpi node of the snapshot has metrics with achieved = true
AllKpisAchieved ==
    \A i \in 1..Len(nodes) :
        nodes[i].category = "kpi" => MetricsAchieved(nodes[i]) = Bool(TRUE)

\* C16: when every kpi node of the snapshot has achieved = true, the response to a
\* query_nodes parsed query that carries the status entity 'unachieved' is the fixed
\* 'all achieved' message, with no nodes, no edges and no action.
C16_AllAchievedMessage ==
    (/\ call.op = "generateResponse"
     /\ call.arg.intent = "query_nodes"
     /\ \E i \in 1..Len(call.arg.entities) :
            call.arg.entities[i].type = "status" /\ call.arg.entities[i].value = "unachieved"
     /\ AllKpisAchieved) =>
        call.res = [content |-> [kind |-> "allAchieved"], nodes |-> Undefined,
                    edges |-> Undefined, action |-> Undefined]

\* C16 witness: the unachieved KPIs are asked for on a snapshot with two kpi nodes, both
\* achieved, and an edge, and the answer is the 'all achieved' message
C16_Witness ==
    /\ call.op = "generateResponse"
    /\ call.arg.intent = "query_nodes"
    /\ \E i \in 1..Len(call.arg.entities) :
           call.arg.entities[i].type = "status" /\ call.arg.entities[i].value = "unachieved"
    /\ AllKpisAchieved
    /\ Cardinality({i \in 1..Len(nodes) : nodes[i].category = "kpi"}) = 2
    /\ Len(edges) > 0
    /\ call.res.content.kind = "allAchieved"

-----------------------------------------------------------------------------
(* Correlations *)

\* the ids of the nodes of a category that an edge joins to nodeId, in either
\* direction
DirectlyConnected(nodeId, cat) ==
    {nodes[i].id : i \in {j \in 1..Len(nodes) :
        /\ nodes[j].category = cat
        /\ \E e \in 1..Len(edges) :
              \/ edges[e].source = nodeId /\ edges[e].target = nodes[j].id
              \/ edges[e].target = nodeId /\ edges[e].source = nodes[j].id}}

\* the ids of the nodes of a category that are targets of the edges leaving nodeId
OutgoingNeighbours(nodeId, cat) ==
    {nodes[i].id : i \in {j \in 1..Len(nodes) :
        /\ nodes[j].category = cat
        /\ \E e \in 1..Len(edges) :
              edges[e].source = nodeId /\ edges[e].target = nodes[j].id}}

\* the ids of the kpi nodes of the snapshot
KpiIds == {nodes[i].id : i \in {j \in 1..Len(nodes) : nodes[j].category = "kpi"}}

\* what the result says of the pairs, given the neighbours that count as shared
CorrelationsAsStated(result, Neighbours(_, _)) ==
    LET sharedDesign(x, y) == Cardinality(Neighbours(x, "design") \cap Neighbours(y, "design"))
        sharedVerify(x, y) == Cardinality(Neighbours(x, "verify") \cap Neighbours(y, "verify"))
        pairOf(c) == {c.kpi1.id, c.kpi2.id}
    IN \* every entry is a pair of distinct kpi nodes, and no pair comes twice
       /\ \A k \in 1..Len(result) :
            /\ result[k].kpi1.id # result[k].kpi2.id
            /\ pairOf(result[k]) \subseteq KpiIds
       /\ \A k, l \in 1..Len(result) : pairOf(result[k]) = pairOf(result[l]) => k = l
       \* a pair is reported iff it shares a design or a verify node
       /\ \A x, y \in KpiIds :
            x # y =>
               ((\E k \in 1..Len(result) : pairOf(result[k]) = {x, y})
                  <=> (sharedDesign(x, y) >= 1 \/ sharedVerify(x, y) >= 1))
       \* the strength counts the shared design nodes
       /\ \A k \in 1..Len(result) :
            LET shared == sharedDesign(result[k].kpi1.id, result[k].kpi2.id)
            IN /\ result[k].sharedDesignParams = shared
               /\ result[k].correlationStrength =
                    (IF shared >= 2 THEN "strong" ELSE IF shared = 1 THEN "medium" ELSE "weak")
       \* non-increasing shared-design count
       /\ \A k \in 1..(Len(result) - 1) :
            result[k].sharedDesignParams >= result[k + 1].sharedDesignParams

\* C17: analyzeCorrelations considers each unordered pair of distinct kpi nodes at
\* most once, reports a pair exactly when the two share at least one directly
\* connected design node or verify node, gives it the strength 'strong' for two or
\* more shared design nodes, 'medium' for exactly one and 'weak' for none, and
\* orders the result by non-increasing shared-design count.
C17_CorrelatedIffSharedNeighbour ==
    call.op = "analyzeCorrelations" => CorrelationsAsStated(call.res, DirectlyConnected)

\* what holds of the result when only the targets of the edges leaving an indicator
\* count as its neighbours
CorrelatedIffSharedTarget ==
    call.op = "analyzeCorrelations" => CorrelationsAsStated(call.res, OutgoingNeighbours)

\* a result with a strong pair placed ahead of a medium pair that the loops met first
CorrelationsReordered ==
    /\ call.op = "analyzeCorrelations"
    /\ Len(call.res) >= 2
    /\ call.res[1].correlationStrength = "strong"
    /\ call.res[1].kpi1.id = RespIdUX
    /\ \E k \in 2..Len(call.res) : call.res[k].kpi1.id = RespIdNVH

-----------------------------------------------------------------------------
(* Gap reports *)

\* the kpi nodes of the snapshot
KpiNodeSet == {nodes[i] : i \in {j \in 1..Len(nodes) : nodes[j].category = "kpi"}}

\* how many kpi nodes the report of a category counts as covered
CoveredBy(category) ==
    Cardinality({n \in KpiNodeSet :
        CASE category = "modelCoverage" -> Truthy(MetricsModelType(n))
          [] category = "verificationCoverage" -> OutgoingNeighbours(n.id, "verify") # {}
          [] category = "achievement" -> Truthy(MetricsAchieved(n))})

\* the double d is the rational number num / den
DblIsRatio(d, num, den) ==
    IF d = DblZero THEN num = 0
    ELSE /\ d.e <= 0
         /\ NatEqual(NatMul(BitsOfNat(den), d.m), NatShiftLeft(BitsOfNat(num), 0 - d.e))

\* the double d is within one unit in its last place of num / den
DblNearRatio(d, num, den) ==
    IF d = DblZero THEN num = 0
    ELSE /\ d.e <= 0
         /\ LET scaled == NatMul(BitsOfNat(den), d.m)
                exact == NatShiftLeft(BitsOfNat(num), 0 - d.e)
            IN /\ ~NatLess(NatAdd(scaled, BitsOfNat(den)), exact)
               /\ ~NatLess(NatAdd(exact, BitsOfNat(den)), scaled)

\* the priority of the thresholds 60 and 80 on the rate 100 * covered / total
PriorityOfRatio(covered, total) ==
    IF 100 * covered < 60 * total THEN "high"
    ELSE IF 100 * covered < 80 * total THEN "medium" ELSE "low"

-----------------------------------------------------------------------------
(* Level health *)

\* the kpi nodes of a level
KpisOfLevel(level) == {n \in KpiNodeSet : n.level = Num(level)}

\* the grade of the thresholds 90, 80, 70, 60 on the score weighted / total
GradeOfRatio(weighted, total) ==
    IF weighted >= 90 * total THEN "A"
    ELSE IF weighted >= 80 * total THEN "B"
    ELSE IF weighted >= 70 * total THEN "C"
    ELSE IF weighted >= 60 * total THEN "D" ELSE "F"

\* the entries of a level in the result
EntriesOfLevel(level) == {k \in 1..Len(call.res) : call.res[k].level = level}

\* the double d is within four units in its last place of num / den
DblAboutRatio(d, num, den) ==
    IF d = DblZero THEN num = 0
    ELSE /\ d.e <= 0
         /\ LET scaled == NatMul(BitsOfNat(den), d.m)
                exact == NatShiftLeft(BitsOfNat(num), 0 - d.e)
                slack == BitsOfNat(4 * den)
            IN /\ ~NatLess(NatAdd(scaled, slack), exact)
               /\ ~NatLess(NatAdd(exact, slack), scaled)

\* C19: analyzeLevelHealth returns, for each level of 1 and 2 that has a kpi node,
\* one entry whose healthScore is 0.5 * achievementRate + 0.3 * modelCoverage
\* + 0.2 * verificationCoverage, each a percentage over the KPIs of the level, and
\* whose grade is A for a score of at least 90, B for at least 80, C for at least
\* 70, D for at least 60 and F below 60; a level with no KPI has no entry.
C19_HealthScoreAndGrade ==
    call.op = "analyzeLevelHealth" =>
        /\ \A k \in 1..Len(call.res) : call.res[k].level \in {1, 2}
        /\ \A level \in {1, 2} :
            LET kpis == KpisOfLevel(level)
                total == Cardinality(kpis)
                achieved == Cardinality({n \in kpis : Truthy(MetricsAchieved(n))})
                modelled == Cardinality({n \in kpis : Truthy(MetricsModelType(n))})
                verified == Cardinality({n \in kpis :
                                            OutgoingNeighbours(n.id, "verify") # {}})
                weighted == 50 * achieved + 30 * modelled + 20 * verified
            IN IF total = 0 THEN EntriesOfLevel(level) = {}
               ELSE /\ Cardinality(EntriesOfLevel(level)) = 1
                    /\ \A k \in EntriesOfLevel(level) :
                          /\ DblAboutRatio(call.res[k].healthScore, weighted, total)
                          /\ call.res[k].grade = GradeOfRatio(weighted, total)

\* what holds of the grade: it is the grade of the thresholds on the healthScore
\* computed, and the healthScore is about the weighted sum
GradeOfComputedScore ==
    call.op = "analyzeLevelHealth" =>
        /\ \A k \in 1..Len(call.res) : call.res[k].grade = gradeOf(call.res[k].healthScore)
        /\ \A level \in {1, 2} :
              IF KpisOfLevel(level) = {} THEN EntriesOfLevel(level) = {}
              ELSE Cardinality(EntriesOfLevel(level)) = 1

-----------------------------------------------------------------------------
(* Entity precedence *)

\* the classes of each entity type, in the fixed order
EntityOrder ==
    [status |-> <<"unachieved", "achieved">>,
     model_type |-> <<"sysml", "simulink", "modelica", "fmu", "none">>,
     level |-> <<"1", "2">>,
     category |-> <<"goal", "kpi", "design", "verify">>]

\* a keyword of the class occurs in the normalized query
KeywordOccurs(type, class, n) ==
    CASE type = "status" ->
            TestAny(IF class = "unachieved" THEN UnachievedWords ELSE AchievedWords, n)
      [] type = "model_type" ->
            TestAny(CASE class = "sysml" -> SysmlWords
                      [] class = "simulink" -> SimulinkWords
                      [] class = "modelica" -> ModelicaWords
                      [] class = "fmu" -> FmuWords
                      [] class = "none" -> NoModelWords, n)
      [] type = "level" ->
            \/ TestAny(IF class = "1" THEN Level1Words ELSE Level2Words, n)
            \/ TestSpaced(<<"l", "e", "v", "e", "l">>, class, n)
      [] type = "category" ->
            TestAny(CASE class = "goal" -> GoalWords
                      [] class = "kpi" -> KpiWords
                      [] class = "design" -> DesignWords
                      [] class = "verify" -> VerifyWords, n)

\* the classes of a type of which a keyword occurs, as positions in the order
ClassesOccurring(type, n) ==
    {k \in 1..Len(EntityOrder[type]) : KeywordOccurs(type, EntityOrder[type][k], n)}

\* the entities of a type in a parsed query
EntitiesOfType(parsed, type) ==
    LET isOfType(e) == e.type = type IN SelectSeq(parsed.entities, isOfType)

\* C20: for every query, parseQuery emits at most one entity of each of the types
\* status, model_type, level and category; it emits one exactly when a keyword of
\* the type occurs, and when keywords of several classes of the type occur its
\* value is the first of them in the fixed order (status: unachieved, achieved;
\* model type: sysml, simulink, modelica, fmu, none; level: 1, 2; category: goal,
\* kpi, design, verify).
C20_EntityPrecedence ==
    call.op = "parseQuery" =>
        \A type \in DOMAIN EntityOrder :
            LET n == trim(toLowerCase(call.arg))
                found == EntitiesOfType(call.res, type)
                hits == ClassesOccurring(type, n)
            IN /\ Len(found) <= 1
               /\ hits = {} => found = <<>>
               /\ hits # {} =>
                    /\ Len(found) = 1
                    /\ found[1].value =
                         EntityOrder[type][CHOOSE k \in hits : \A l \in hits : k <= l]

\* a query with an achieved keyword ahead of an unachieved one, a simulation and
\* a model keyword, or the second level ahead of the first, has been parsed
C20_Witness ==
    /\ call.op = "parseQuery"
    /\ \/ /\ call.arg = <<"u8fbe", "u6807", "u672a", "u5b8c", "u6210">>
          /\ EntitiesOfType(call.res, "status") = <<MkEntity("status", "unachieved", 90)>>
       \/ /\ call.arg = <<"u4e8c", "u7ea7", "1", "u7ea7">>
          /\ EntitiesOfType(call.res, "level") = <<MkEntity("level", "1", 90)>>

-----------------------------------------------------------------------------
(* The generator keeps nothing between calls *)

-----------------------------------------------------------------------------
(* References to the results of the query before *)

\* the reply to the query before the one just answered, if there was one
ReplyBefore ==
    IF Len(messages) >= 4 THEN messages[Len(messages) - 2] ELSE WelcomeMessage

\* C22: when a query that holds a reference word is answered after a query whose reply
\* highlighted nodes, the parsed query handed to generateResponse holds a node_id
\* entity for each of those nodes.
C22_ReferencesResolved ==
    (/\ call.op = "processQuery"
     /\ TestAny(ReferenceWords, call.arg)
     /\ ReplyBefore.data # Undefined)
    => \A i \in 1..Len(ReplyBefore.data.nodes) :
          \E j \in 1..Len(call.parsed.entities) :
              /\ call.parsed.entities[j].type = "node_id"
              /\ call.parsed.entities[j].value = ReplyBefore.data.nodes[i]

-----------------------------------------------------------------------------
(* The order of the messages of the panel *)

\* the message of the user for a query
UserMessage(query) == [type |-> "user", content |-> query, data |-> Undefined]

\* after the welcome message, messages of the user and replies alternate
Alternating ==
    \A i \in 2..Len(messages) :
        messages[i].type = (IF i % 2 = 0 THEN "user" ELSE "assistant")

\* a step of the panel that submits a query or appends a reply does what is said of it
OrderlyStep ==
    /\ call'.op = "handleSendMessage" =>
          /\ ~isProcessing
          /\ IF trim(call'.arg) = <<>>
             THEN UNCHANGED panelVars
             ELSE /\ messages' = Append(messages, UserMessage(call'.arg))
                  /\ isProcessing'
    /\ call'.op = "processQuery" =>
          /\ Len(messages') = Len(messages) + 1
          /\ messages'[Len(messages')] = call'.res
          /\ call'.res.type = "assistant"
          /\ ~isProcessing'
          /\ IF call'.res.data # Undefined
             THEN highlights' = Append(highlights, [nodeIds |-> call'.res.data.nodes,
                                                    edgeIds |-> call'.res.data.edges])
             ELSE highlights' = highlights
    /\ messages' # messages => call'.op \in {"handleSendMessage", "processQuery"}
    /\ highlights' # highlights => call'.op = "processQuery"

\* C26: a query that is not blank is appended as one message of the user and is in
\* the end followed by one reply before another message of the user; no query is
\* submitted while isProcessing, which is false again once the reply is appended; a
\* blank query changes nothing; onHighlight is invoked for the replies with nodes and
\* for no other.
C26_ReplyOrdering ==
    /\ [][OrderlyStep]_vars
    /\ [](Alternating /\ (isProcessing <=> messages[Len(messages)].type = "user"))
    /\ \A n \in 1..MaxTurns :
          (Len(messages) = 2 * n) ~> (Len(messages) = 2 * n + 1 /\ ~isProcessing)

\* C26 witness: two queries were answered in turn, one reply with nodes and one without
C26_Witness ==
    /\ Len(messages) = 5
    /\ ~isProcessing
    /\ Len(highlights) = 1
    /\ messages[3].data = Undefined
    /\ messages[5].data # Undefined

-----------------------------------------------------------------------------
(* The walk to the goal *)

\* C24: analyzeDependencies comes to an end on every graph, a cycle of kpi nodes
\* without a goal before it included, because the walk of calculateCriticalPath comes
\* to each node at most once: the path never holds a node twice.
C24_WalkVisitsEachNodeOnce ==
    run.pc = "walking" =>
        \A i, j \in 1..Len(run.path) : run.path[i] = run.path[j] => i = j

-----------------------------------------------------------------------------
(* Indicators without a model *)

\* the keyword of a query for the indicators that have no model
NoModelKeyword == <<"u6ca1", "u6709", "u6a21", "u578b">>

\* C25: a display query for the indicators without a model is answered from the kpi
\* nodes that have no modelType alone: the model_type value parseQuery gives for it is
\* the one generateQueryNodesResponse takes for hasModel = false.
C25_NoModelQueryListsNoModel ==
    (/\ call.op = "generateResponse"
     /\ call.arg.intent = "query_nodes"
     /\ Contains(call.arg.rawQuery, NoModelKeyword))
    => /\ queryNodesCondition(call.arg).hasModel = Bool(FALSE)
       /\ call.res.content.kind = "queryNodes" =>
             \A i \in 1..Len(call.res.content.lines) :
                 call.res.content.lines[i].model = Str("none")

-----------------------------------------------------------------------------
(* The task decomposition comes after the choice of a scheme *)

\* the drawer of the task decomposition is open
DrawerOpen == app.currentPage = "tradeoff" /\ app.tradeoff.isWBSDrawerOpen

\* C23: the drawer is open only in the step compare with a scheme of designSchemes
\* selected; the evaluation page is entered only by the confirm action of the open
\* drawer, with that scheme; closing the drawer leaves the step compare and the page
\* as they are.
C23_DecompositionAfterSelection ==
    /\ [](DrawerOpen => /\ app.tradeoff.currentStep = "compare"
                        /\ app.tradeoff.selectedScheme \in SchemeIds)
    /\ [](app.currentPage = "evaluation" => app.selectedScheme # Null)
    /\ [][/\ (app.currentPage = "tradeoff" /\ app'.currentPage = "evaluation") =>
                (DrawerOpen /\ app'.selectedScheme = Str(app.tradeoff.selectedScheme))
          /\ (DrawerOpen /\ app'.currentPage = "tradeoff" /\ ~app'.tradeoff.isWBSDrawerOpen) =>
                /\ app'.tradeoff.currentStep = "compare"
                /\ app' = [app EXCEPT !.tradeoff.isWBSDrawerOpen = FALSE]]_vars

\* C23 witness: on the tradeoff page again after an evaluation of scheme-c, the
\* drawer is open on scheme-a
C23_Witness ==
    /\ DrawerOpen
    /\ app.selectedScheme = Str("scheme-c")
    /\ app.tradeoff.selectedScheme = "scheme-a"

-----------------------------------------------------------------------------
(* The history of queries *)

\* the last n elements of s, all of s when it has fewer
LastN(s, n) == IF Len(s) > n THEN SubSeq(s, Len(s) - n + 1, Len(s)) ELSE s

\* the number of queries recorded so far
Recorded == SumOfValues(context.preferences.frequentQueries)

\* C28: after any number of recordQuery calls queryHistory holds the 10 entries
\* recorded last (all of them when fewer were recorded) in the order of recording, and
\* getLastQuery returns the entry recorded last.
C28_HistoryBounded ==
    /\ [](/\ Len(context.queryHistory) = (IF Recorded > 10 THEN 10 ELSE Recorded)
          /\ call.op = "getLastQuery" =>
                call.res = (IF Recorded = 0 THEN Undefined
                            ELSE context.queryHistory[Len(context.queryHistory)]))
    /\ [][call'.op = "recordQuery" =>
             /\ context'.queryHistory = LastN(Append(context.queryHistory, call'.arg), 10)
             /\ getLastQuery(context') = call'.arg]_vars

\* C28 witness: eleven queries were recorded, the first of them one with result nodes
\* and the last one without, and getLastQuery returns the last
C28_Witness ==
    /\ Recorded = 11
    /\ Len(context.queryHistory) = 10
    /\ context.preferences.frequentQueries[1].key = RespIdNVH \o <<" ", "u7684", "u94fe", "u8def">>
    /\ context.queryHistory[1].resultNodes # Undefined
    /\ call.op = "getLastQuery"
    /\ call.res.resultNodes = Undefined

-----------------------------------------------------------------------------
(* What resolveReferences adds *)

\* the node IDs a reference stands for: those of the reply to the last query
\* recorded and those in focus
Referred ==
    LET last == getLastQuery(context)
    IN (IF last # Undefined /\ last.resultNodes # Undefined
        THEN Range(last.resultNodes.v) ELSE {})
       \cup Range(context.focusedNodes)

\* C27: resolveReferences returns the intent and the confidence it was given and an
\* entity list that begins with the entities it was given, in their order; what
\* follows are node_id entities, none unless the query holds a reference word, and
\* then one for each result node of the last query recorded and each node in focus
\* whose ID is not the value of an entity already, none twice; the context stays as
\* it is.
C27_ResolveOnlyAdds ==
    /\ [](call.op = "resolveReferences" =>
            LET given == call.arg.parsed.entities
                all == call.res.entities
                added == SubSeq(all, Len(given) + 1, Len(all))
            IN /\ call.res.intent = call.arg.parsed.intent
               /\ call.res.confidence = call.arg.parsed.confidence
               /\ Len(all) >= Len(given)
               /\ SubSeq(all, 1, Len(given)) = given
               /\ \A i \in 1..Len(added) : added[i].type = "node_id"
               /\ \A i, j \in 1..Len(added) : added[i].value = added[j].value => i = j
               /\ {added[i].value : i \in 1..Len(added)} =
                     IF TestAny(ReferenceWords, call.arg.query)
                     THEN Referred \ {ValueChars(given[i]) : i \in 1..Len(given)}
                     ELSE {})
    /\ [][call'.op = "resolveReferences" => context' = context]_vars

\* C27 witness: a query with a reference word, a node_id entity and a level entity is
\* resolved against a reply that named a node twice and a node the query names, with
\* the node whose ID is the level value in focus: one entity is added
C27_Witness ==
    /\ call.op = "resolveReferences"
    /\ Len(call.arg.parsed.entities) >= 2
    /\ getLastQuery(context) # Undefined
    /\ getLastQuery(context).resultNodes = Arr(<<RespIdGear, RespIdNVH, RespIdGear>>)
    /\ context.focusedNodes = <<RefIdOne>>
    /\ Len(call.res.entities) = Len(call.arg.parsed.entities) + 1

-----------------------------------------------------------------------------
(* The nodes viewed last *)

\* C29: in every state reached by updateFocus, addFavorite, removeFavorite,
\* importContext and clearContext, recentlyViewed holds no ID twice and at most 20
\* IDs, and after updateFocus the ID focused last comes first.
C29_RecentlyViewedBounded ==
    LET recentlyViewed == context.preferences.recentlyViewed.v
    IN /\ \A i, j \in 1..Len(recentlyViewed) : recentlyViewed[i] = recentlyViewed[j] => i = j
       /\ Len(recentlyViewed) <= 20
       /\ (call.op = "updateFocus" /\ call.arg # <<>>) =>
             recentlyViewed[1] = call.arg[Len(call.arg)]

-----------------------------------------------------------------------------
(* Importing a context *)

\* the three preferences of a context
Preferences(ctx) ==
    <<ctx.preferences.favoriteKPIs, ctx.preferences.recentlyViewed,
      ctx.preferences.frequentQueries>>

\* a string that cannot be imported completely: no JSON, or JSON whose
\* preferences.frequentQueries is there and is not an array of pairs
Unimportable(data) ==
    \/ ~data.valid
    \/ /\ data.value.t = "object"
       /\ Truthy(data.value.preferences)
       /\ Truthy(data.value.preferences.frequentQueries)
       /\ NewMap(data.value.preferences.frequentQueries).threw

\* C30: importContext of a string that cannot be imported completely leaves
\* favoriteKPIs, recentlyViewed and frequentQueries as they were, and importContext
\* of a string that exportContext made gives the three of the exported context.
C30_ImportAllOrNothing ==
    [][call'.op = "importContext" =>
          /\ Unimportable(call'.arg) => Preferences(context') = Preferences(context)
          /\ "exportedFrom" \in DOMAIN call' =>
                Preferences(context') = Preferences(call'.exportedFrom)]_vars

====
